---- MODULE Spec2Model ----
(***************************************************************************)
(* Model of the DIGIsens / LOWA serial protocol code: the XOR checksum     *)
(* routines, the frame encoders (create_lowa_msg, _build_command, the 'ag' *)
(* broadcast frame), the reply decoders and weight parsers, and one        *)
(* request/response exchange over a serial port.                           *)
(*                                                                         *)
(* Text is modelled as a sequence of one-character strings, so that        *)
(* slicing, len(), ord() and concatenation are computed as Python does.    *)
(***************************************************************************)
EXTENDS Integers, Sequences, FiniteSets, TLC

VARIABLES
    \* ---- checksum routines (pure): input, output, routine applied
    message, crc, crc_by,
    \* ---- frame encoders (pure): inputs, frame built, routine applied
    head, uid, command, data, channel, use_extended, msg, built_by,
    \* ---- reply decoders and weight parsers (pure): what the reply was made of,
    \*      the text passed to the routine, the routine applied, what it returned
    input, response, parsed_by, result,
    \* ---- one serial session: who drives the port, whether it is open, where the
    \*      driver stands, the frame last written, the reply the device sends to
    \*      it, the bytes not yet read, the bytes the last read returned, how the
    \*      last exchange ended and what it produced, the exchanges started, and
    \*      the loop index and result list of read_mux_weights_gd
    client, port_open, pc, last_sent, wire, pending, rx, outcome, reading,
    exchanges, gd_channel, weights,
    \* ---- the bus of a session: whether the transport still works, the device
    \*      (1..) a polling cycle is at and the per-device results it collected,
    \*      what the transport of a polling cycle observed, in order, and the
    \*      baud rates the port and the device are set to
    bus_ok, mux, results, log, port_baud, device_baud,
    \* ---- a parallel run: the script, where its main stands, the port given to
    \*      each worker thread; per thread its position, whether the port it
    \*      opened is open, its channel index, the weights it collected and what
    \*      its read routine returned; the shared results list; the bytes
    \*      waiting in the input buffer of each port
    par_prog, main_pc, ports, tpc, topen, tch, tweights, tres, par_results, pbuf,
    \* ---- a DigiSensInterface object: what became of its connection ("never"
    \*      before connect(), "connected" after connect() returned, "failed"
    \*      after it raised, "disconnected" after disconnect() / __exit__)
    conn

csVars    == <<message, crc, crc_by>>
codecVars == <<head, uid, command, data, channel, use_extended, msg, built_by>>
parseVars == <<input, response, parsed_by, result>>
exVars    == <<client, port_open, pc, last_sent, wire, pending, rx, outcome, reading,
               exchanges, gd_channel, weights>>
busVars   == <<bus_ok, mux, results, log, port_baud, device_baud>>
parVars   == <<par_prog, main_pc, ports, tpc, topen, tch, tweights, tres, par_results, pbuf>>
connVars  == <<conn>>
vars      == <<csVars, codecVars, parseVars, exVars, busVars, parVars, connVars>>

---------------------------------------------------------------------------
(* Characters and Python's string primitives *)

CR == "\r"

\* The printable ASCII characters, code 32 (space) to 126 (~), in order; code 96
\* (the grave accent) cannot be written as a TLA+ string and is named instead.
Printable ==
    <<" ", "!", "\"", "#", "$", "%", "&", "'", "(", ")", "*", "+", ",", "-", ".", "/",
      "0", "1", "2", "3", "4", "5", "6", "7", "8", "9", ":", ";", "<", "=", ">", "?",
      "@", "A", "B", "C", "D", "E", "F", "G", "H", "I", "J", "K", "L", "M", "N", "O",
      "P", "Q", "R", "S", "T", "U", "V", "W", "X", "Y", "Z", "[", "\\", "]", "^", "_",
      "GRAVE", "a", "b", "c", "d", "e", "f", "g", "h", "i", "j", "k", "l", "m", "n", "o",
      "p", "q", "r", "s", "t", "u", "v", "w", "x", "y", "z", "{", "|", "}", "~">>

\* The other characters of the 8-bit range, in code order: codes 0..12, 14..31
\* and 127..255, each named by its code in hexadecimal.
Unprintable ==
    <<"x00", "x01", "x02", "x03", "x04", "x05", "x06", "x07", "x08", "x09", "x0A", "x0B",
      "x0C", "x0E", "x0F", "x10", "x11", "x12", "x13", "x14", "x15", "x16", "x17", "x18",
      "x19", "x1A", "x1B", "x1C", "x1D", "x1E", "x1F", "x7F", "x80", "x81", "x82", "x83",
      "x84", "x85", "x86", "x87", "x88", "x89", "x8A", "x8B", "x8C", "x8D", "x8E", "x8F",
      "x90", "x91", "x92", "x93", "x94", "x95", "x96", "x97", "x98", "x99", "x9A", "x9B",
      "x9C", "x9D", "x9E", "x9F", "xA0", "xA1", "xA2", "xA3", "xA4", "xA5", "xA6", "xA7",
      "xA8", "xA9", "xAA", "xAB", "xAC", "xAD", "xAE", "xAF", "xB0", "xB1", "xB2", "xB3",
      "xB4", "xB5", "xB6", "xB7", "xB8", "xB9", "xBA", "xBB", "xBC", "xBD", "xBE", "xBF",
      "xC0", "xC1", "xC2", "xC3", "xC4", "xC5", "xC6", "xC7", "xC8", "xC9", "xCA", "xCB",
      "xCC", "xCD", "xCE", "xCF", "xD0", "xD1", "xD2", "xD3", "xD4", "xD5", "xD6", "xD7",
      "xD8", "xD9", "xDA", "xDB", "xDC", "xDD", "xDE", "xDF", "xE0", "xE1", "xE2", "xE3",
      "xE4", "xE5", "xE6", "xE7", "xE8", "xE9", "xEA", "xEB", "xEC", "xED", "xEE", "xEF",
      "xF0", "xF1", "xF2", "xF3", "xF4", "xF5", "xF6", "xF7", "xF8", "xF9", "xFA", "xFB",
      "xFC", "xFD", "xFE", "xFF">>

UnprintableSet == {Unprintable[i] : i \in 1..Len(Unprintable)}

\* ord(c) for a character of the 8-bit range
Ord(c) ==
    IF c = CR THEN 13
    ELSE IF c \in UnprintableSet
    THEN LET i == CHOOSE j \in 1..Len(Unprintable) : Unprintable[j] = c
         IN  IF i <= 13 THEN i - 1 ELSE IF i <= 31 THEN i ELSE i + 95
    ELSE 31 + (CHOOSE i \in 1..Len(Printable) : Printable[i] = c)

\* chr(n), 0 <= n <= 255
Chr(n) ==
    IF n = 13 THEN CR
    ELSE IF n >= 32 /\ n <= 126 THEN Printable[n - 31]
    ELSE Unprintable[IF n < 13 THEN n + 1 ELSE IF n < 32 THEN n ELSE n - 95]

\* a ^ b on non-negative integers
RECURSIVE BitXor(_, _)
BitXor(a, b) ==
    IF a = 0 THEN b
    ELSE IF b = 0 THEN a
    ELSE (((a % 2) + (b % 2)) % 2) + (2 * BitXor(a \div 2, b \div 2))

\* the n-fold repetition c * n
Rep(c, n) == [i \in 1..n |-> c]

\* str(n), n >= 0
RECURSIVE Str(_)
Str(n) ==
    IF n < 10 THEN <<Printable[17 + n]>>
    ELSE Str(n \div 10) \o <<Printable[17 + (n % 10)]>>

\* hex(n)[2:], n >= 0: lower-case digits, no padding
HexLowerDigit(d) == IF d < 10 THEN Printable[17 + d] ELSE Printable[66 + (d - 10)]

RECURSIVE HexLower(_)
HexLower(n) ==
    IF n < 16 THEN <<HexLowerDigit(n)>>
    ELSE HexLower(n \div 16) \o <<HexLowerDigit(n % 16)>>

\* s.upper()
UpperChar(c) ==
    IF c # CR /\ Ord(c) >= 97 /\ Ord(c) <= 122 THEN Printable[Ord(c) - 32 - 31] ELSE c

Upper(s) == [i \in 1..Len(s) |-> UpperChar(s[i])]

\* s.lower()
LowerChar(c) ==
    IF c # CR /\ Ord(c) >= 65 /\ Ord(c) <= 90 THEN Printable[Ord(c) + 32 - 31] ELSE c

Lower(s) == [i \in 1..Len(s) |-> LowerChar(s[i])]

\* "sub in s"
HasSub(s, sub) ==
    \E i \in 1..((Len(s) - Len(sub)) + 1) : SubSeq(s, i, (i + Len(sub)) - 1) = sub

\* s.zfill(w) for s without a sign prefix
Zfill(s, w) == IF Len(s) >= w THEN s ELSE Rep("0", w - Len(s)) \o s

\* Python slices s[a:b], s[a:] and s[:-k] (0-based, a >= 0), clamped as Python does
Slice(s, a, b) ==
    LET hi == IF b > Len(s) THEN Len(s) ELSE b
    IN  IF a >= hi THEN <<>> ELSE SubSeq(s, a + 1, hi)

SliceFrom(s, a) == Slice(s, a, Len(s))

DropLast(s, k) == Slice(s, 0, Len(s) - k)

\* "checksum = 0; for char in s: checksum ^= ord(char)": the XOR of ord(c) over
\* characters lo..hi of s. XOR is associative, so the left-to-right fold of the code
\* is evaluated by halves, which keeps the evaluation shallow on 100-character frames.
RECURSIVE XorRange(_, _, _)
XorRange(s, lo, hi) ==
    IF lo > hi THEN 0
    ELSE IF lo = hi THEN Ord(s[lo])
    ELSE LET mid == (lo + hi) \div 2
         IN  BitXor(XorRange(s, lo, mid), XorRange(s, mid + 1, hi))

XorFold(s, acc) == BitXor(acc, XorRange(s, 1, Len(s)))

---------------------------------------------------------------------------
(* Checksum routines *)

\* mutant of _calculate_checksum: only the low seven bits of the XOR are rendered
calculate_checksum_7bit(m) == Zfill(Upper(HexLower(XorFold(m, 0) % 128)), 2)

\* DigiSensInterface._calculate_checksum: f"{checksum:02X}"
calculate_checksum(m) == Zfill(Upper(HexLower(XorFold(m, 0))), 2)

\* XOR_CRC_calculation, the variant ending in .upper().zfill(2)
\* (read_two_muxes_simple.py and the other gd/gl scripts)
XOR_CRC_calculation(m) == Zfill(Upper(HexLower(XorFold(m, 0))), 2)

\* XOR_CRC_calculation of digisens_n17.py and me_3_me.py: no zfill
n17_XOR_CRC_calculation(m) == Upper(HexLower(XorFold(m, 0)))

---------------------------------------------------------------------------
(* Frame encoders *)

\* "channel: Optional[int] = None": the absent channel
NoChannel == -1

\* f"{n:02d}", n >= 0
Format02d(n) == Zfill(Str(n), 2)

\* mutant of create_lowa_msg: the length counts command+uid+data+checksum only
create_lowa_msg_len2(h, u, c, d) ==
    LET c_length == Str(Len(c \o u \o d) + 2)
        m        == h \o Zfill(c_length, 2) \o c \o u \o d
        msg_crc  == XOR_CRC_calculation(m)
    IN  (m \o msg_crc) \o <<CR>>

\* create_lowa_msg of the gd/gl scripts (checksum by the zfill(2) routine)
create_lowa_msg(h, u, c, d) ==
    LET c_length == Str(Len(h \o <<"0", "0">> \o c \o u \o d))
        m        == h \o Zfill(c_length, 2) \o c \o u \o d
        msg_crc  == XOR_CRC_calculation(m)
    IN  (m \o msg_crc) \o <<CR>>

\* create_lowa_msg of digisens_n17.py and me_3_me.py (checksum without zfill)
n17_create_lowa_msg(h, u, c, d) ==
    LET c_length == Str(Len(h \o <<"0", "0">> \o c \o u \o d))
        m        == h \o Zfill(c_length, 2) \o c \o u \o d
        msg_crc  == n17_XOR_CRC_calculation(m)
    IN  (m \o msg_crc) \o <<CR>>

\* mutant of _build_command: the length also counts the header and the length field
build_command_len3(c, mux_id, ch, ext) ==
    LET prefix   == IF ext THEN <<"#">> ELSE <<"@">>
        d        == IF ch # NoChannel THEN mux_id \o Format02d(ch) ELSE mux_id
        length   == Len(prefix) + 2 + Len(c) + Len(d)
        m        == prefix \o Format02d(length) \o c \o d
        checksum == calculate_checksum(m)
    IN  (m \o checksum) \o <<CR>>

\* DigiSensInterface._build_command
build_command(c, mux_id, ch, ext) ==
    LET prefix   == IF ext THEN <<"#">> ELSE <<"@">>
        d        == IF ch # NoChannel THEN mux_id \o Format02d(ch) ELSE mux_id
        length   == Len(c) + Len(d) + 2
        m        == prefix \o Format02d(length) \o c \o d
        checksum == calculate_checksum(m)
    IN  (m \o checksum) \o <<CR>>

\* the broadcast frame DigiSensInterface.get_mux_address builds
get_mux_address_command(ext) ==
    LET prefix   == IF ext THEN <<"#">> ELSE <<"@">>
        m        == prefix \o <<"0", "5", "a", "g">>
        checksum == calculate_checksum(m)
    IN  (m \o checksum) \o <<CR>>

---------------------------------------------------------------------------
(* Weight parsers *)

Whitespace == {" ", CR, "\n", "\t"}

\* s.strip()
Strip(s) ==
    LET keep == {i \in 1..Len(s) : s[i] \notin Whitespace}
    IN  IF keep = {} THEN <<>>
        ELSE SubSeq(s, CHOOSE i \in keep : \A j \in keep : i <= j,
                       CHOOSE i \in keep : \A j \in keep : i >= j)

DigitChars == {"0", "1", "2", "3", "4", "5", "6", "7", "8", "9"}

AllDigits(s) == \A i \in 1..Len(s) : s[i] \in DigitChars

\* the value of a digit string (0 for the empty string)
RECURSIVE DigitsValue(_)
DigitsValue(s) ==
    IF s = <<>> THEN 0
    ELSE (10 * DigitsValue(SubSeq(s, 1, Len(s) - 1))) + (Ord(s[Len(s)]) - 48)

\* float(t) on text made of digits, '.', '+', '-' and other characters that make it
\* non-numeric: [sign] digits [. digits] | [sign] . digits. The exponent, inf/nan and
\* underscore forms of float() do not occur in the texts enumerated here.
Unsigned(t) == IF t # <<>> /\ t[1] \in {"+", "-"} THEN Tail(t) ELSE t

DotAt(t) == {i \in 1..Len(t) : t[i] = "."}

IsFloat(t0) ==
    LET t == Strip(t0)
        u == Unsigned(t)
    IN  /\ u # <<>>
        /\ Cardinality(DotAt(u)) <= 1
        /\ \A i \in 1..Len(u) : u[i] \in DigitChars \cup {"."}
        /\ \E i \in 1..Len(u) : u[i] \in DigitChars

\* float(t) in thousandths, exact for texts with at most 3 fractional digits
FloatMilli(t0) ==
    LET t    == Strip(t0)
        u    == Unsigned(t)
        dot  == IF DotAt(u) = {} THEN Len(u) + 1 ELSE CHOOSE i \in DotAt(u) : TRUE
        ip   == SubSeq(u, 1, dot - 1)
        fp   == SubSeq(u, dot + 1, Len(u))
        fp3  == SubSeq(fp \o <<"0", "0", "0">>, 1, 3)
        mag  == (1000 * DigitsValue(ip)) + DigitsValue(fp3)
    IN  IF t # <<>> /\ t[1] = "-" THEN -mag ELSE mag

\* StatusFlag(status_char): the member with that value, if any
StatusFlagNames ==
    [c \in {" ", "M", "C", "E"} |->
        CASE c = " " -> "OK"
          [] c = "M" -> "MOTION"
          [] c = "C" -> "NOT_CONNECTED"
          [] c = "E" -> "EEPROM_ERROR"]

\* status_map.get(status_char, 'UNKNOWN') of the script parsers
status_map_get(c) ==
    IF c \in DOMAIN StatusFlagNames THEN StatusFlagNames[c] ELSE "UNKNOWN"

\* mutant of parse_weight_response: the sign is ignored
parse_weight_response_nosign(r, channel_idx) ==
    LET weight_str  == Strip(Slice(r, 1, 9))
        numeric     == IsFloat(weight_str)
        status_char == IF numeric THEN r[10] ELSE "E"
    IN  IF Len(r) < 10 THEN [exc |-> "IndexError"]
        ELSE [exc     |-> "none",
              channel |-> channel_idx,
              weight  |-> IF numeric THEN FloatMilli(weight_str) ELSE 0,
              status  |-> status_map_get(status_char),
              valid   |-> (status_char = " ")]

\* parse_weight_response of read_two_muxes_simple.py / read_two_muxes_multiport.py
parse_weight_response(r, channel_idx) ==
    LET sign        == r[1]
        weight_str  == Strip(Slice(r, 1, 9))
        numeric     == IsFloat(weight_str)
        weight      == IF ~numeric THEN 0
                       ELSE IF sign = "-" THEN -FloatMilli(weight_str)
                       ELSE FloatMilli(weight_str)
        status_char == IF numeric THEN r[10] ELSE "E"
    IN  IF Len(r) < 10 THEN [exc |-> "IndexError"]
        ELSE [exc     |-> "none",
              channel |-> channel_idx,
              weight  |-> weight,
              status  |-> status_map_get(status_char),
              valid   |-> (status_char = " ")]

\* DigiSensInterface._parse_weight_response; WeightReading.is_valid is stored as valid
interface_parse_weight_response(r) ==
    LET d           == SliceFrom(r, 3)
        sign        == d[1]
        weight_str  == Strip(Slice(d, 1, 9))
        status_char == d[10]
        weight      == IF sign = "-" THEN -FloatMilli(weight_str)
                       ELSE FloatMilli(weight_str)
        status      == IF status_char \in DOMAIN StatusFlagNames
                       THEN StatusFlagNames[status_char] ELSE "OK"
    IN  IF Len(d) < 10 THEN [exc |-> "IndexError"]
        ELSE IF ~IsFloat(weight_str) THEN [exc |-> "ValueError"]
        ELSE [exc    |-> "none",
              weight |-> weight,
              status |-> status,
              valid  |-> (status = "OK")]

---------------------------------------------------------------------------
(* Reply decoders *)

\* the stride and window width of the bulk loops, "range(0, len(data), 11)"
BlockStride == 11

\* the windows data[i:i+11] that pass "len(weight_block) == 11", in order
FullWindows(d) ==
    [k \in 1..(Len(d) \div BlockStride) |->
        Slice(d, BlockStride * (k - 1), BlockStride * k)]

\* read_mux_weights of read_two_muxes_simple.py, from the reply read to the return
read_mux_weights_parse(mux_answer) ==
    LET d == Slice(mux_answer, 3, Len(mux_answer) - 3)
        w == FullWindows(d)
    IN  [exc     |-> "none",
         data    |-> d,
         weights |-> [k \in 1..Len(w) |-> parse_weight_response(w[k], k - 1)]]

\* read_mux_weights of read_two_muxes_multiport.py, from the reply read to the return
multiport_read_mux_weights_parse(mux_answer) ==
    LET d == Slice(mux_answer, 3, Len(mux_answer) - 3)
        w == FullWindows(d)
    IN  IF Len(mux_answer) < 5
        THEN [exc |-> "none", success |-> FALSE, weights |-> <<>>,
              error |-> "No response or timeout"]
        ELSE [exc     |-> "none",
              success |-> TRUE,
              data    |-> d,
              weights |-> [k \in 1..Len(w) |-> parse_weight_response(w[k], k - 1)],
              error   |-> "None"]

\* DigiSensInterface.get_all_weights, from the response of _send_command to the
\* return; an exception of _parse_weight_response leaves the loop and the method
get_all_weights_parse(resp) ==
    LET d      == DropLast(SliceFrom(resp, 3), 2)
        w      == FullWindows(d)
        parsed == [k \in 1..Len(w) |->
                     interface_parse_weight_response(
                         <<"@", "1", "3">> \o w[k] \o <<"0", "0">>)]
        failed == {k \in 1..Len(w) : parsed[k].exc # "none"}
    IN  IF failed # {}
        THEN [exc |-> parsed[CHOOSE k \in failed : \A j \in failed : k <= j].exc]
        ELSE [exc |-> "none", data |-> d, weights |-> parsed]

\* read_scale of digisens_n17.py, from the reply read to the return
read_scale_return(reply) ==
    IF Len(reply) < 5 THEN [exc |-> "none", none |-> TRUE]
    ELSE [exc |-> "none", none |-> FALSE, data |-> Slice(reply, 3, Len(reply) - 1)]

\* ".decode('ascii').strip()" and the empty check of _send_command, then the
\* "response[3:-2]" of get_model_number / get_software_revision / get_mux_address
get_model_number_return(reply) ==
    LET resp == Strip(reply)
    IN  IF resp = <<>> THEN [exc |-> "TimeoutError"]
        ELSE [exc |-> "none", data |-> Slice(resp, 3, Len(resp) - 2)]

\* a well-formed reply frame of the device around a body:
\* header, 2-digit length, body, checksum, CR
ReplyFrame(h, body) ==
    LET m == h \o Zfill(Str(Len(body) + 3), 2) \o body
    IN  (m \o XOR_CRC_calculation(m)) \o <<CR>>

---------------------------------------------------------------------------
(* Inputs of the pure routines *)

\* longest checksum input enumerated
MaxMsgLen == 3

CsAlphabet == {"@", "A", "B", "0", "s"}

Messages == UNION {[1..n -> CsAlphabet] : n \in 0..MaxMsgLen}

Heads == {<<"@">>, <<"#">>}

Uids ==
    {<<"1", "2", "3">>, <<"0", "0", "1">>,
     <<"0", "1", "2", "0", "2", "5", "0", "9", "2", "5", "1", "1", "0", "7", "1", "1">>,
     <<"0", "1", "2", "0", "2", "2", "1", "1", "2", "4", "0", "6", "4", "3", "4", "4">>}

Commands == {<<"s", "z">>, <<"g", "l">>, <<"g", "d">>, <<"g", "w">>, <<"g", "m">>}

\* data lengths that take the payload of a 3-character address to 96, 97 and 98
LongDataLens == {91, 92, 93}

Datas ==
    {<<>>, <<"0">>, <<"7">>, <<"0", "0">>, <<"7", "0">>, <<"0", "7">>}
    \cup {Rep("5", n) : n \in LongDataLens}

\* highest channel number passed to _build_command
MaxChannel == 7

Channels == 0..MaxChannel

Signs == {" ", "-"}

\* weight fields (8 characters) with their value in thousandths; the last three
\* are not numeric: a letter, all blanks, an inner blank
WeightFields ==
    {[text |-> <<"0", "0", "0", "2", ".", "1", "3", "0">>, numeric |-> TRUE, milli |-> 2130],
     [text |-> <<"0", "0", "0", "1", ".", "2", "5", "0">>, numeric |-> TRUE, milli |-> 1250],
     [text |-> <<" ", " ", "1", "2", ".", "5", " ", " ">>, numeric |-> TRUE, milli |-> 12500],
     [text |-> <<"0", "0", "0", "0", ".", "0", "0", "0">>, numeric |-> TRUE, milli |-> 0],
     [text |-> <<"0", "0", "X", "2", ".", "1", "3", "0">>, numeric |-> FALSE, milli |-> 0],
     [text |-> <<" ", " ", " ", " ", " ", " ", " ", " ">>, numeric |-> FALSE, milli |-> 0],
     [text |-> <<"0", "0", "0", "2", ".", "1", " ", "3">>, numeric |-> FALSE, milli |-> 0]}

\* status characters: the four of the table and two that are not in it
StatusChars == {" ", "M", "C", "E", "?", "0"}

\* one 10-character block: sign(1) + weight(8) + status(1)
SingleBlocks ==
    {[kind |-> "block", sign |-> sg, field |-> f, st |-> st] :
        sg \in Signs, f \in WeightFields, st \in StatusChars}

BlockText(b) == (<<b.sign>> \o b.field.text) \o <<b.st>>

\* most blocks in one bulk (gl) reply body
MaxBlocks == 8

\* block k (from 0) of a bulk body carries the weight k.130; block pos, if any, is
\* the marked one: its status is st and, unless numeric, its weight field holds a letter
BulkShapes ==
    {[kind |-> "bulk", n |-> n, r |-> r, pad |-> pad, pos |-> 0, numeric |-> TRUE, st |-> " "] :
        n \in 0..MaxBlocks, r \in {0, 5}, pad \in {0, 1}}
    \cup
    {[kind |-> "bulk", n |-> n, r |-> r, pad |-> pad, pos |-> pos, numeric |-> nm, st |-> st] :
        n \in 1..MaxBlocks, r \in {0, 5}, pad \in {0, 1}, pos \in 1..MaxBlocks,
        nm \in BOOLEAN, st \in {" ", "M", "?"}}

Digit(k) == Printable[17 + k]

ChannelBlock(k, sh) ==
    LET marked == (k + 1 = sh.pos)
        field  == IF marked /\ ~sh.numeric
                  THEN <<"0", "0", "X", Digit(k), ".", "1", "3", "0">>
                  ELSE <<"0", "0", "0", Digit(k), ".", "1", "3", "0">>
    IN  (<<" ">> \o field) \o <<IF marked THEN sh.st ELSE " ">>

\* n blocks, each followed by pad filler blanks, then the first r characters of
\* one more block
BulkBody(sh) ==
    LET w == 10 + sh.pad
    IN  [i \in 1..((sh.n * w) + sh.r) |->
            LET k == (i - 1) \div w
                j == ((i - 1) % w) + 1
            IN  IF j > 10 THEN " " ELSE ChannelBlock(k, sh)[j]]

\* bodies of the single-block and text replies (gm, gr, gd)
TextBodies ==
    {<<"H", "1", "1", "0", "3">>, <<"2", ".", "1">>, <<>>,
     <<" ", "0", "0", "0", "1", "2", ".", "3", "4", "5", " ">>,
     <<"-", "0", "0", "0", "0", "1", ".", "2", "5", "0", "M">>}

---------------------------------------------------------------------------
(* Actions: one call of a checksum routine on a fresh input *)

CallCalculateChecksum ==
    /\ crc_by = "none"
    /\ \E m \in Messages :
         /\ message' = m
         /\ crc' = calculate_checksum(m)
    /\ crc_by' = "_calculate_checksum"
    /\ UNCHANGED <<codecVars, parseVars, exVars, busVars, parVars, connVars>>

CallXorCrc ==
    /\ crc_by = "none"
    /\ \E m \in Messages :
         /\ message' = m
         /\ crc' = XOR_CRC_calculation(m)
    /\ crc_by' = "XOR_CRC_calculation"
    /\ UNCHANGED <<codecVars, parseVars, exVars, busVars, parVars, connVars>>

CallXorCrcN17 ==
    /\ crc_by = "none"
    /\ \E m \in Messages :
         /\ message' = m
         /\ crc' = n17_XOR_CRC_calculation(m)
    /\ crc_by' = "n17_XOR_CRC_calculation"
    /\ UNCHANGED <<codecVars, parseVars, exVars, busVars, parVars, connVars>>

(* Actions: one call of a frame encoder *)

CallCreateLowaMsg ==
    /\ built_by = "none"
    /\ \E h \in Heads, u \in Uids, c \in Commands, d \in Datas :
         /\ head' = h /\ uid' = u /\ command' = c /\ data' = d
         /\ msg' = create_lowa_msg(h, u, c, d)
    /\ built_by' = "create_lowa_msg"
    /\ UNCHANGED <<channel, use_extended, csVars, parseVars, exVars, busVars, parVars, connVars>>

CallCreateLowaMsgN17 ==
    /\ built_by = "none"
    /\ \E h \in Heads, u \in Uids, c \in Commands, d \in Datas :
         /\ head' = h /\ uid' = u /\ command' = c /\ data' = d
         /\ msg' = n17_create_lowa_msg(h, u, c, d)
    /\ built_by' = "n17_create_lowa_msg"
    /\ UNCHANGED <<channel, use_extended, csVars, parseVars, exVars, busVars, parVars, connVars>>

\* head and data record what _build_command derives from use_extended and channel
CallBuildCommand ==
    /\ built_by = "none"
    /\ \E c \in Commands, u \in Uids, ch \in Channels \cup {NoChannel}, ext \in BOOLEAN :
         /\ command' = c /\ uid' = u /\ channel' = ch /\ use_extended' = ext
         /\ head' = (IF ext THEN <<"#">> ELSE <<"@">>)
         /\ data' = (IF ch # NoChannel THEN Format02d(ch) ELSE <<>>)
         /\ msg' = build_command(c, u, ch, ext)
    /\ built_by' = "_build_command"
    /\ UNCHANGED <<csVars, parseVars, exVars, busVars, parVars, connVars>>

CallGetMuxAddressCommand ==
    /\ built_by = "none"
    /\ \E ext \in BOOLEAN :
         /\ use_extended' = ext
         /\ head' = (IF ext THEN <<"#">> ELSE <<"@">>)
         /\ msg' = get_mux_address_command(ext)
    /\ command' = <<"a", "g">> /\ uid' = <<>> /\ data' = <<>>
    /\ channel' = NoChannel
    /\ built_by' = "get_mux_address"
    /\ UNCHANGED <<csVars, parseVars, exVars, busVars, parVars, connVars>>

\* read_scale of digisens_n17.py up to ser.write: scale_str = f"{scale_number:02d}",
\* create_lowa_msg("#", uid, "gd", scale_str)
read_scale_request(u, scale_number) ==
    n17_create_lowa_msg(<<"#">>, u, <<"g", "d">>, Format02d(scale_number))

\* read_mux_weights_gd of continuous_weight_monitor.py up to ser.write:
\* create_lowa_msg(head, mux_id, "gd", str(channel) + "0")
read_mux_weights_gd_request(h, mux_id, ch) ==
    create_lowa_msg(h, mux_id, <<"g", "d">>, Str(ch) \o <<"0">>)

\* the shelf uids of config.json
ConfigUids == {u \in Uids : Len(u) = 16}

\* read_all_shelves: "for scale in range(8): read_scale(ser, uid, scale)"
CallReadScaleRequest ==
    /\ built_by = "none"
    /\ \E u \in ConfigUids, scale \in Channels :
         /\ head' = <<"#">> /\ uid' = u /\ command' = <<"g", "d">>
         /\ channel' = scale
         /\ data' = Format02d(scale)
         /\ msg' = read_scale_request(u, scale)
    /\ use_extended' = TRUE
    /\ built_by' = "read_scale"
    /\ UNCHANGED <<csVars, parseVars, exVars, busVars, parVars, connVars>>

\* read_mux_weights_gd: "for channel in range(num_channels)"; the header follows
\* use_extended
CallReadMuxWeightsGdRequest ==
    /\ built_by = "none"
    /\ \E u \in Uids, ch \in Channels, ext \in BOOLEAN :
         /\ head' = (IF ext THEN <<"#">> ELSE <<"@">>)
         /\ uid' = u /\ command' = <<"g", "d">>
         /\ channel' = ch /\ use_extended' = ext
         /\ data' = Str(ch) \o <<"0">>
         /\ msg' = read_mux_weights_gd_request(IF ext THEN <<"#">> ELSE <<"@">>, u, ch)
    /\ built_by' = "read_mux_weights_gd"
    /\ UNCHANGED <<csVars, parseVars, exVars, busVars, parVars, connVars>>

(* Actions: one call of a parser or decoder on a fresh reply *)

CallParseWeightResponse ==
    /\ parsed_by = "none"
    /\ \E b \in SingleBlocks, ch \in {0, MaxChannel} :
         /\ input' = b
         /\ response' = BlockText(b)
         /\ result' = parse_weight_response(BlockText(b), ch)
    /\ parsed_by' = "parse_weight_response"
    /\ UNCHANGED <<csVars, codecVars, exVars, busVars, parVars, connVars>>

\* the response is what _send_command returns for the reply frame: decoded, stripped
CallInterfaceParseWeightResponse ==
    /\ parsed_by = "none"
    /\ \E b \in SingleBlocks, h \in Heads :
         LET resp == Strip(ReplyFrame(h, BlockText(b)))
         IN  /\ input' = b
             /\ response' = resp
             /\ result' = interface_parse_weight_response(resp)
    /\ parsed_by' = "_parse_weight_response"
    /\ UNCHANGED <<csVars, codecVars, exVars, busVars, parVars, connVars>>

CallReadMuxWeights ==
    /\ parsed_by = "none"
    /\ \E sh \in BulkShapes, h \in Heads :
         /\ sh.pos <= sh.n
         /\ \E body \in {BulkBody(sh)} :
              \E reply \in {ReplyFrame(h, body)} :
                /\ input' = sh @@ [body |-> body]
                /\ response' = reply
                /\ result' = read_mux_weights_parse(reply)
    /\ parsed_by' = "read_mux_weights"
    /\ UNCHANGED <<csVars, codecVars, exVars, busVars, parVars, connVars>>

CallReadMuxWeightsMultiport ==
    /\ parsed_by = "none"
    /\ \E sh \in BulkShapes, h \in Heads :
         /\ sh.pos <= sh.n
         /\ \E body \in {BulkBody(sh)} :
              \E reply \in {ReplyFrame(h, body)} :
                /\ input' = sh @@ [body |-> body]
                /\ response' = reply
                /\ result' = multiport_read_mux_weights_parse(reply)
    /\ parsed_by' = "multiport_read_mux_weights"
    /\ UNCHANGED <<csVars, codecVars, exVars, busVars, parVars, connVars>>

CallGetAllWeights ==
    /\ parsed_by = "none"
    /\ \E sh \in BulkShapes, h \in Heads :
         /\ sh.pos <= sh.n
         /\ \E body \in {BulkBody(sh)} :
              \E resp \in {Strip(ReplyFrame(h, body))} :
                /\ input' = sh @@ [body |-> body]
                /\ response' = resp
                /\ result' = get_all_weights_parse(resp)
    /\ parsed_by' = "get_all_weights"
    /\ UNCHANGED <<csVars, codecVars, exVars, busVars, parVars, connVars>>

CallReadScale ==
    /\ parsed_by = "none"
    /\ \E body \in TextBodies, h \in Heads :
         LET reply == ReplyFrame(h, body)
         IN  /\ input' = [kind |-> "text", body |-> body]
             /\ response' = reply
             /\ result' = read_scale_return(reply)
    /\ parsed_by' = "read_scale"
    /\ UNCHANGED <<csVars, codecVars, exVars, busVars, parVars, connVars>>

CallGetModelNumber ==
    /\ parsed_by = "none"
    /\ \E body \in TextBodies, h \in Heads :
         LET reply == ReplyFrame(h, body)
         IN  /\ input' = [kind |-> "text", body |-> body]
             /\ response' = reply
             /\ result' = get_model_number_return(reply)
    /\ parsed_by' = "get_model_number"
    /\ UNCHANGED <<csVars, codecVars, exVars, busVars, parVars, connVars>>

\* the replies of the device to an sz command: the echo of the verb in either
\* case, an OK, another frame, or nothing
ZeroBodies == {<<"s", "z">>, <<"S", "Z">>, <<"O", "K">>, <<"?">>}

\* DigiSensInterface.zero_sensor from the response of _send_command (decoded,
\* stripped, TimeoutError when empty) to the return
zero_sensor_return(resp) ==
    IF resp = <<>> THEN [exc |-> "TimeoutError"]
    ELSE [exc |-> "none", success |-> HasSub(Lower(resp), <<"s", "z">>)]

\* zero_mux_all_channels, one channel, from the reply read to the verdict:
\* the channel is failed when "OK" is not in the response
zero_mux_channel_return(reply) ==
    [exc |-> "none", success |-> HasSub(reply, <<"O", "K">>)]

CallZeroSensor ==
    /\ parsed_by = "none"
    /\ \E reply \in {ReplyFrame(h, b) : h \in Heads, b \in ZeroBodies} \cup {<<>>} :
         LET resp == Strip(reply)
         IN  /\ input' = [kind |-> "text", body |-> DropLast(SliceFrom(reply, 3), 3)]
             /\ response' = resp
             /\ result' = zero_sensor_return(resp)
    /\ parsed_by' = "zero_sensor"
    /\ UNCHANGED <<csVars, codecVars, exVars, busVars, parVars, connVars>>

CallZeroMuxAllChannels ==
    /\ parsed_by = "none"
    /\ \E reply \in {ReplyFrame(h, b) : h \in Heads, b \in ZeroBodies} \cup {<<>>} :
         /\ input' = [kind |-> "text", body |-> DropLast(SliceFrom(reply, 3), 3)]
         /\ response' = reply
         /\ result' = zero_mux_channel_return(reply)
    /\ parsed_by' = "zero_mux_all_channels"
    /\ UNCHANGED <<csVars, codecVars, exVars, busVars, parVars, connVars>>

CsIdle == message = <<>> /\ crc = <<>> /\ crc_by = "none"

CodecIdle ==
    /\ head = <<>> /\ uid = <<>> /\ command = <<>> /\ data = <<>>
    /\ channel = NoChannel /\ use_extended = FALSE
    /\ msg = <<>> /\ built_by = "none"

ParseIdle ==
    /\ input = [kind |-> "none"] /\ response = <<>>
    /\ parsed_by = "none" /\ result = [exc |-> "none"]

\* before __init__ / before the port is opened
ExIdle ==
    /\ client = "none" /\ port_open = FALSE /\ pc = "idle"
    /\ last_sent = <<>> /\ wire = <<>> /\ pending = <<>> /\ rx = <<>>
    /\ outcome = "none" /\ reading = [exc |-> "none"]
    /\ exchanges = 0 /\ gd_channel = 0 /\ weights = <<>>
    /\ conn = "never"

\* baudrate: int = 9600 of DigiSensInterface.__init__, and the devices' setting
DefaultBaud == 9600

\* a working bus, no cycle started, port and device at the default rate
BusIdle ==
    /\ bus_ok = TRUE /\ mux = 0 /\ results = <<>> /\ log = <<>>
    /\ port_baud = DefaultBaud /\ device_baud = DefaultBaud

\* main builds thread1 and thread2
Threads == {1, 2}

\* the serial ports a user may enter, the defaults of the two prompts
PortNames == {"/dev/ttyUSB0", "/dev/ttyUSB1"}

\* the empty slot of "results = [None, None]"
None == [none |-> TRUE]

\* before main of a parallel script has read its configuration
ParIdle ==
    /\ par_prog = "none" /\ main_pc = "config"
    /\ ports = [t \in Threads |-> "/dev/ttyUSB0"]
    /\ tpc = [t \in Threads |-> "idle"]
    /\ topen = [t \in Threads |-> FALSE]
    /\ tch = [t \in Threads |-> 0]
    /\ tweights = [t \in Threads |-> <<>>]
    /\ tres = [t \in Threads |-> None]
    /\ par_results = [t \in Threads |-> None]
    /\ pbuf = [p \in PortNames |-> <<>>]

\* the checksum routines applied to every bounded input
InitChecksum == CsIdle /\ CodecIdle /\ ParseIdle /\ ExIdle /\ BusIdle /\ ParIdle
NextChecksum == CallCalculateChecksum \/ CallXorCrc \/ CallXorCrcN17
SpecChecksum == InitChecksum /\ [][NextChecksum]_vars

\* the frame encoders applied to every bounded input
InitCodec == CsIdle /\ CodecIdle /\ ParseIdle /\ ExIdle /\ BusIdle /\ ParIdle
NextCodec ==
    \/ CallCreateLowaMsg
    \/ CallCreateLowaMsgN17
    \/ CallBuildCommand
    \/ CallGetMuxAddressCommand
    \/ CallReadScaleRequest
    \/ CallReadMuxWeightsGdRequest
SpecCodec == InitCodec /\ [][NextCodec]_vars

\* the weight parsers and reply decoders applied to every bounded reply
InitParse == CsIdle /\ CodecIdle /\ ParseIdle /\ ExIdle /\ BusIdle /\ ParIdle
NextParse ==
    \/ CallParseWeightResponse
    \/ CallInterfaceParseWeightResponse
    \/ CallReadMuxWeights
    \/ CallReadMuxWeightsMultiport
    \/ CallGetAllWeights
    \/ CallReadScale
    \/ CallGetModelNumber
    \/ CallZeroSensor
    \/ CallZeroMuxAllChannels
SpecParse == InitParse /\ [][NextParse]_vars

---------------------------------------------------------------------------
(* Claims about the checksum routines and the frame encoders *)

StartsWith(s, p) == Len(s) >= Len(p) /\ SubSeq(s, 1, Len(p)) = p

Payload == command \o uid \o data

LowaEncoders == {"create_lowa_msg", "n17_create_lowa_msg"}

\* C1: create_lowa_msg('@', "123", "sz", "0") is exactly @09sz123040 followed by
\* one CR.
C1_ReferenceFrame ==
    (/\ built_by \in LowaEncoders
     /\ head = <<"@">> /\ uid = <<"1", "2", "3">>
     /\ command = <<"s", "z">> /\ data = <<"0">>)
    => msg = <<"@", "0", "9", "s", "z", "1", "2", "3", "0", "4", "0", CR>>

C1_Witness ==
    /\ built_by = "create_lowa_msg"
    /\ head = <<"@">> /\ uid = <<"1", "2", "3">>
    /\ command = <<"s", "z">> /\ data = <<"0">>
    /\ Len(msg) = 12

HexUpperDigits ==
    <<"0", "1", "2", "3", "4", "5", "6", "7", "8", "9", "A", "B", "C", "D", "E", "F">>

TwoHex(x) == <<HexUpperDigits[(x \div 16) + 1], HexUpperDigits[(x % 16) + 1]>>

\* C3: every checksum routine returns exactly two characters, the XOR of the
\* ordinals in upper-case hexadecimal, zero-padded to width 2.
C3_ChecksumTwoHex ==
    crc_by # "none" => crc = TwoHex(XorFold(message, 0))

\* the reply envelope as the decoders slice it: header, and body = raw[3:-3]
DecodeHeader(raw) == Slice(raw, 0, 1)

DecodeBody(raw) == Slice(raw, 3, Len(raw) - 3)

AddressLen(h) == IF h = <<"#">> THEN 16 ELSE 3

\* C4: for an address whose length matches the header mode, decoding the encoded
\* frame recovers header and address, and the checksum recomputed over
\* header..data equals the two characters before the CR.
C4_RoundTrip ==
    (/\ built_by \in LowaEncoders \cup {"_build_command"}
     /\ Len(uid) = AddressLen(head))
    => /\ DecodeHeader(msg) = head
       /\ Slice(DecodeBody(msg), Len(command), Len(command) + Len(uid)) = uid
       /\ XOR_CRC_calculation(DropLast(msg, 3)) = Slice(msg, Len(msg) - 3, Len(msg) - 1)

---------------------------------------------------------------------------
(* Claims about the reply decoders and the weight parsers *)

Decoders ==
    {"read_scale", "get_model_number", "read_mux_weights",
     "multiport_read_mux_weights", "get_all_weights"}

BulkParsers == {"read_mux_weights", "multiport_read_mux_weights", "get_all_weights"}

BlockParsers == {"parse_weight_response", "_parse_weight_response"}

\* C5: a decoder that returns a body returns exactly the characters between the
\* 3-character prefix and the 2 checksum characters before the CR.
C5_DecodeBody ==
    (/\ parsed_by \in Decoders
     /\ result.exc = "none"
     /\ "data" \in DOMAIN result)
    => result.data = input.body

\* C6: a bulk body of n 10-character blocks plus fewer than 10 leftover
\* characters yields exactly n readings, reading k decoded from block k
\* (8 blocks give 8 readings, 7 blocks and 5 characters give 7).
C6_BulkTenCharWindows ==
    (/\ parsed_by \in BulkParsers
     /\ input.pad = 0
     /\ input.numeric)
    => /\ result.exc = "none"
       /\ Len(result.weights) = input.n
       /\ \A k \in 1..Len(result.weights) :
            /\ result.weights[k].exc = "none"
            /\ result.weights[k].weight = (1000 * (k - 1)) + 130
            /\ "channel" \in DOMAIN result.weights[k] => result.weights[k].channel = k - 1

\* the status table of the claims
ClaimStatus(c) ==
    CASE c = " " -> "OK"
      [] c = "M" -> "MOTION"
      [] c = "C" -> "NOT_CONNECTED"
      [] c = "E" -> "EEPROM_ERROR"
      [] OTHER   -> "UNKNOWN"

ExpectedWeight(b) == IF b.sign = "-" THEN -b.field.milli ELSE b.field.milli

\* C7: for a numeric weight field and a status character of the table, the
\* reading's weight is the value of the trimmed field, negated exactly when the
\* sign is '-', its status is the table entry, and it is valid exactly when the
\* status is OK.
C7_SingleBlockParse ==
    (/\ parsed_by \in BlockParsers
     /\ input.field.numeric
     /\ input.st \in {" ", "M", "C", "E"})
    => /\ result.exc = "none"
       /\ result.weight = ExpectedWeight(input)
       /\ result.status = ClaimStatus(input.st)
       /\ result.valid = (input.st = " ")

C7_Witness ==
    /\ parsed_by = "_parse_weight_response"
    /\ response = <<"@", "1", "3", "-", "0", "0", "0", "1", ".", "2", "5", "0", "M", "3", "A">>
    /\ result = [exc |-> "none", weight |-> -1250, status |-> "MOTION", valid |-> FALSE]

\* C8: a status character outside the table gives status Unknown and an invalid
\* reading, in every parser.
C8_UnknownStatus ==
    (/\ parsed_by \in BlockParsers
     /\ input.field.numeric
     /\ input.st \notin {" ", "M", "C", "E"})
    => /\ result.exc = "none"
       /\ result.status = "UNKNOWN"
       /\ ~result.valid

\* C9: a non-numeric weight field never raises: the block becomes an invalid
\* placeholder of weight 0, and a bulk reply of n full blocks still returns n
\* readings, the others unaffected.
C9_NonNumericDegrades ==
    /\ (parsed_by \in BlockParsers /\ ~input.field.numeric)
         => /\ result.exc = "none"
            /\ result.weight = 0
            /\ ~result.valid
    /\ (parsed_by \in BulkParsers /\ input.pad = 1 /\ input.r = 0 /\ ~input.numeric)
         => /\ result.exc = "none"
            /\ Len(result.weights) = input.n
            /\ \A k \in 1..Len(result.weights) :
                 IF k = input.pos
                 THEN result.weights[k].weight = 0 /\ ~result.weights[k].valid
                 ELSE result.weights[k].weight = (1000 * (k - 1)) + 130

---------------------------------------------------------------------------
(* One serial session: write a request, read until CR or timeout, parse *)

\* parse_gd_response of continuous_weight_monitor.py: any exception inside becomes
\* the PARSE_ERROR tuple
parse_gd_response(r, channel_idx) ==
    LET d           == SliceFrom(r, 3)
        sign        == d[1]
        weight_str  == Strip(Slice(d, 1, 10))
        status_char == d[11]
        weight      == IF sign = "-" THEN -FloatMilli(weight_str)
                       ELSE FloatMilli(weight_str)
    IN  IF Len(d) < 11 \/ ~IsFloat(weight_str)
        THEN [exc |-> "none", channel |-> channel_idx, weight |-> 0,
              status |-> "PARSE_ERROR", valid |-> FALSE]
        ELSE [exc |-> "none", channel |-> channel_idx, weight |-> weight,
              status |-> status_map_get(status_char), valid |-> (status_char = " ")]

\* parse_gd_weight_response of get_weights_gd.py: only the ValueError of float() is
\* caught; an index out of range leaves the function
parse_gd_weight_response(r, channel_idx) ==
    LET d           == SliceFrom(r, 3)
        sign        == d[1]
        weight_str  == Strip(Slice(d, 1, 10))
        numeric     == IsFloat(weight_str)
        weight      == IF ~numeric THEN 0
                       ELSE IF sign = "-" THEN -FloatMilli(weight_str)
                       ELSE FloatMilli(weight_str)
        status_char == IF numeric THEN d[11] ELSE "E"
    IN  IF Len(d) < 11 THEN [exc |-> "IndexError"]
        ELSE [exc |-> "none", channel |-> channel_idx, weight |-> weight,
              status |-> status_map_get(status_char), valid |-> (status_char = " ")]

\* position of the first CR of s, 0 if there is none
FirstCR(s) ==
    LET at == {i \in 1..Len(s) : s[i] = CR}
    IN  IF at = {} THEN 0 ELSE CHOOSE i \in at : \A j \in at : i <= j

\* serial.read_until(b"\r") under the port timeout: the numbers of bytes it can
\* return when `buffered` is already in the input buffer and `coming` is still on
\* its way. It returns at the first CR; without one it returns at the timeout what
\* has arrived, which is at least the buffered bytes.
ReadLens(buffered, coming) ==
    LET stream == buffered \o coming
        cr     == FirstCR(stream)
        lo     == IF cr # 0 /\ cr <= Len(buffered) THEN cr ELSE Len(buffered)
        hi     == IF cr # 0 THEN cr ELSE Len(stream)
    IN  lo..hi

\* exchanges one DigiSensInterface session may start
MaxExchanges == 2

\* channels read_mux_weights_gd loops over (num_channels)
NumChannels == 2

StandardId == <<"1", "2", "3">>

ExtendedId ==
    <<"0", "1", "2", "0", "2", "5", "0", "9", "2", "5", "1", "1", "0", "7", "1", "1">>

\* what the device may answer to gw: a 10-character block in a reply frame, a
\* terminated frame around a shorter body, or nothing
GwReplies ==
    {ReplyFrame(<<"@">>, <<" ", "0", "0", "0", "2", ".", "1", "3", "0", " ">>),
     ReplyFrame(<<"@">>, <<"-", "0", "0", "0", "1", ".", "2", "5", "0", "M">>),
     ReplyFrame(<<"@">>, <<" ", "0", "0", "0", "2", ".", "1", "3">>),
     ReplyFrame(<<"@">>, <<>>),
     <<>>}

\* what the device may answer to gd: an 11-character block in a reply frame, a
\* terminated frame around a shorter body, or nothing
GdReplies ==
    {ReplyFrame(<<"#">>, <<" ", "0", "0", "0", "1", "2", ".", "3", "4", "5", " ">>),
     ReplyFrame(<<"#">>, <<"-", "0", "0", "0", "0", "1", ".", "2", "5", "0", "M">>),
     ReplyFrame(<<"#">>, <<" ", "0", "0", "0", "1", "2", ".", "3", "4", "5">>),
     ReplyFrame(<<"#">>, <<>>),
     <<>>}

NoReading == [exc |-> "none"]

\* DigiSensInterface.__init__
InterfaceInit ==
    /\ client = "none"
    /\ client' = "interface"
    /\ UNCHANGED <<port_open, pc, last_sent, wire, pending, rx, outcome, reading,
                   exchanges, gd_channel, weights>>
    /\ UNCHANGED <<csVars, codecVars, parseVars, busVars, parVars, connVars>>

\* DigiSensInterface.connect (also __enter__): open the port, reset_input_buffer
Connect ==
    /\ client = "interface" /\ pc = "idle" /\ ~port_open
    /\ port_open' = TRUE
    /\ pending' = <<>>
    /\ conn' = "connected"
    /\ UNCHANGED <<client, pc, last_sent, wire, rx, outcome, reading,
                   exchanges, gd_channel, weights>>
    /\ UNCHANGED <<csVars, codecVars, parseVars, busVars, parVars>>

\* DigiSensInterface.connect raises: either serial.Serial(...) raises and no port
\* is open, or the port is open and assigned to self.serial when
\* reset_input_buffer / reset_output_buffer raises; the except clause raises
\* ConnectionError and closes nothing (__enter__ lets it through, so __exit__
\* does not run)
ConnectFails ==
    /\ client = "interface" /\ pc = "idle" /\ ~port_open
    /\ \E opened \in BOOLEAN : port_open' = opened
    /\ pending' = <<>>
    /\ outcome' = "ConnectionError"
    /\ conn' = "failed"
    /\ UNCHANGED <<client, pc, last_sent, wire, rx, reading, exchanges, gd_channel, weights>>
    /\ UNCHANGED <<csVars, codecVars, parseVars, busVars, parVars>>

\* DigiSensInterface.disconnect (also __exit__)
Disconnect ==
    /\ client = "interface" /\ pc = "idle" /\ port_open
    /\ port_open' = FALSE
    /\ pending' = <<>>
    /\ conn' = "disconnected"
    /\ UNCHANGED <<client, pc, last_sent, wire, rx, outcome, reading,
                   exchanges, gd_channel, weights>>
    /\ UNCHANGED <<csVars, codecVars, parseVars, busVars, parVars>>

\* get_weight on a closed port: _send_command raises ConnectionError, nothing is written
GetWeightNotConnected ==
    /\ client = "interface" /\ pc = "idle" /\ ~port_open
    /\ exchanges < MaxExchanges
    /\ exchanges' = exchanges + 1
    /\ outcome' = "ConnectionError"
    /\ reading' = NoReading
    /\ rx' = <<>>
    /\ UNCHANGED <<client, port_open, pc, last_sent, wire, pending, gd_channel, weights>>
    /\ UNCHANGED <<csVars, codecVars, parseVars, busVars, parVars, connVars>>

\* get_weight up to the blocking read: _build_command, serial.write, flush
GetWeightWrite ==
    /\ client = "interface" /\ pc = "idle" /\ port_open
    /\ exchanges < MaxExchanges
    /\ \E ch \in {0, MaxChannel}, w \in GwReplies :
         /\ last_sent' = build_command(<<"g", "w">>, StandardId, ch, FALSE)
         /\ wire' = w
    /\ exchanges' = exchanges + 1
    /\ pc' = "awaiting"
    /\ rx' = <<>>
    /\ outcome' = "none"
    /\ reading' = NoReading
    /\ UNCHANGED <<client, port_open, pending, gd_channel, weights>>
    /\ UNCHANGED <<csVars, codecVars, parseVars, busVars, parVars, connVars>>

\* get_weight from the return of read_until: decode, strip, the empty check of
\* _send_command, then _parse_weight_response
GetWeightRead ==
    /\ client = "interface" /\ pc = "awaiting"
    /\ \E n \in ReadLens(pending, wire) :
         LET stream == pending \o wire
             got    == SubSeq(stream, 1, n)
             resp   == Strip(got)
             r      == interface_parse_weight_response(resp)
         IN  /\ rx' = got
             /\ pending' = SubSeq(stream, n + 1, Len(stream))
             /\ outcome' = IF resp = <<>> THEN "TimeoutError"
                           ELSE IF r.exc # "none" THEN r.exc
                           ELSE "WeightReading"
             /\ reading' = IF resp # <<>> /\ r.exc = "none" THEN r ELSE NoReading
    /\ wire' = <<>>
    /\ pc' = "idle"
    /\ UNCHANGED <<client, port_open, last_sent, exchanges, gd_channel, weights>>
    /\ UNCHANGED <<csVars, codecVars, parseVars, busVars, parVars, connVars>>

\* main of continuous_weight_monitor.py: open the port, reset_input_buffer, enter
\* read_mux_weights_gd
StartMonitor ==
    /\ client = "none"
    /\ client' = "monitor"
    /\ port_open' = TRUE
    /\ pending' = <<>>
    /\ gd_channel' = 0
    /\ weights' = <<>>
    /\ UNCHANGED <<pc, last_sent, wire, rx, outcome, reading, exchanges>>
    /\ UNCHANGED <<csVars, codecVars, parseVars, busVars, parVars, connVars>>

\* one iteration of read_mux_weights_gd up to the blocking read
GdWrite ==
    /\ client = "monitor" /\ pc = "idle"
    /\ gd_channel < NumChannels
    /\ last_sent' = create_lowa_msg(<<"#">>, ExtendedId, <<"g", "d">>,
                                    Str(gd_channel) \o <<"0">>)
    /\ \E w \in GdReplies : wire' = w
    /\ exchanges' = exchanges + 1
    /\ pc' = "awaiting"
    /\ rx' = <<>>
    /\ outcome' = "none"
    /\ reading' = NoReading
    /\ UNCHANGED <<client, port_open, pending, gd_channel, weights>>
    /\ UNCHANGED <<csVars, codecVars, parseVars, busVars, parVars, connVars>>

\* the rest of the iteration: the length check, parse_gd_response or the
\* NO_RESPONSE tuple, the append, the 50 ms sleep
GdRead ==
    /\ client = "monitor" /\ pc = "awaiting"
    /\ \E n \in ReadLens(pending, wire) :
         LET stream == pending \o wire
             got    == SubSeq(stream, 1, n)
             tuple  == IF got # <<>> /\ Len(got) >= 14
                       THEN parse_gd_response(got, gd_channel)
                       ELSE [exc |-> "none", channel |-> gd_channel, weight |-> 0,
                             status |-> "NO_RESPONSE", valid |-> FALSE]
         IN  /\ rx' = got
             /\ pending' = SubSeq(stream, n + 1, Len(stream))
             /\ outcome' = IF got # <<>> /\ Len(got) >= 14 THEN "parsed" ELSE "NO_RESPONSE"
             /\ reading' = tuple
             /\ weights' = Append(weights, tuple)
    /\ wire' = <<>>
    /\ gd_channel' = gd_channel + 1
    /\ pc' = "idle"
    /\ UNCHANGED <<client, port_open, last_sent, exchanges>>
    /\ UNCHANGED <<csVars, codecVars, parseVars, busVars, parVars, connVars>>

\* "return weights" of read_mux_weights_gd
MonitorReturn ==
    /\ client = "monitor" /\ pc = "idle"
    /\ gd_channel = NumChannels
    /\ pc' = "returned"
    /\ UNCHANGED <<client, port_open, last_sent, wire, pending, rx, outcome, reading,
                   exchanges, gd_channel, weights>>
    /\ UNCHANGED <<csVars, codecVars, parseVars, busVars, parVars, connVars>>

\* read_single_weight_gd of get_weights_gd.py: serial.Serial(), ser.open(); a
\* SerialException of open() is caught and returned as the ERROR tuple
SingleOpen ==
    /\ client = "none"
    /\ client' = "gd_single"
    /\ \E opened \in BOOLEAN :
         /\ port_open' = opened
         /\ pc' = IF opened THEN "opened" ELSE "returned"
         /\ outcome' = IF opened THEN "none" ELSE "ERROR"
    /\ pending' = <<>>
    /\ UNCHANGED <<last_sent, wire, rx, reading, exchanges, gd_channel, weights>>
    /\ UNCHANGED <<csVars, codecVars, parseVars, busVars, parVars, connVars>>

\* read_single_weight_gd: create_lowa_msg and ser.write
SingleWrite ==
    /\ client = "gd_single" /\ pc = "opened"
    /\ last_sent' = create_lowa_msg(<<"#">>, ExtendedId, <<"g", "d">>,
                                    Str(gd_channel) \o <<"0">>)
    /\ \E w \in GdReplies : wire' = w
    /\ exchanges' = exchanges + 1
    /\ pc' = "awaiting"
    /\ UNCHANGED <<client, port_open, pending, rx, outcome, reading, gd_channel, weights>>
    /\ UNCHANGED <<csVars, codecVars, parseVars, busVars, parVars, connVars>>

\* read_single_weight_gd from the return of read_until: the length check with its
\* close, parse_gd_weight_response and the close after it, or "except Exception",
\* which returns the ERROR tuple without closing
SingleRead ==
    /\ client = "gd_single" /\ pc = "awaiting"
    /\ \E n \in ReadLens(pending, wire) :
         LET stream == pending \o wire
             got    == SubSeq(stream, 1, n)
             r      == parse_gd_weight_response(got, gd_channel)
         IN  /\ rx' = got
             /\ pending' = SubSeq(stream, n + 1, Len(stream))
             /\ IF got = <<>> \/ Len(got) < 5
                THEN /\ outcome' = "TIMEOUT"
                     /\ reading' = NoReading
                     /\ port_open' = FALSE
                ELSE IF r.exc # "none"
                THEN /\ outcome' = "ERROR"
                     /\ reading' = NoReading
                     /\ port_open' = port_open
                ELSE /\ outcome' = "parsed"
                     /\ reading' = r
                     /\ port_open' = FALSE
    /\ wire' = <<>>
    /\ pc' = "returned"
    /\ UNCHANGED <<client, last_sent, exchanges, gd_channel, weights>>
    /\ UNCHANGED <<csVars, codecVars, parseVars, busVars, parVars, connVars>>

Init == CsIdle /\ CodecIdle /\ ParseIdle /\ ExIdle /\ BusIdle /\ ParIdle

Next ==
    \/ InterfaceInit
    \/ Connect
    \/ ConnectFails
    \/ Disconnect
    \/ GetWeightNotConnected
    \/ GetWeightWrite
    \/ GetWeightRead
    \/ StartMonitor
    \/ GdWrite
    \/ GdRead
    \/ MonitorReturn
    \/ SingleOpen
    \/ SingleWrite
    \/ SingleRead

Spec == Init /\ [][Next]_vars

---------------------------------------------------------------------------
(* A DigiSensInterface session that changes the baud rate of the device *)

\* valid_baudrates of set_baudrate; the code sent is the index in this list
ValidBaudrates == <<9600, 19200, 38400, 57600, 115200>>

\* the rates a caller passes to set_baudrate: the current one, another valid
\* one, and one that is not in the list
BaudInputs == {9600, 19200, 4800}

IsValidBaudrate(b) == \E i \in 1..Len(ValidBaudrates) : ValidBaudrates[i] = b

\* valid_baudrates.index(baudrate)
BaudCode(b) == (CHOOSE i \in 1..Len(ValidBaudrates) : ValidBaudrates[i] = b) - 1

\* the replies of the device to a br command: the echo of the verb, another
\* frame, or nothing
BrReplies(code) ==
    {ReplyFrame(<<"@">>, <<"b", "r", Digit(code)>>),
     ReplyFrame(<<"@">>, <<"?">>),
     <<>>}

\* set_baudrate that raises before anything is written: ValueError for a rate
\* that is not in the list, else ConnectionError of _send_command on a closed port
SetBaudrateRaises ==
    /\ client = "interface" /\ pc = "idle"
    /\ exchanges < MaxExchanges
    /\ \E b \in BaudInputs :
         /\ ~IsValidBaudrate(b) \/ ~port_open
         /\ outcome' = IF ~IsValidBaudrate(b) THEN "ValueError" ELSE "ConnectionError"
    /\ exchanges' = exchanges + 1
    /\ reading' = NoReading
    /\ rx' = <<>>
    /\ UNCHANGED <<client, port_open, pc, last_sent, wire, pending, gd_channel, weights>>
    /\ UNCHANGED <<csVars, codecVars, parseVars, busVars, parVars, connVars>>

\* set_baudrate up to the blocking read: _build_command(f'br{code}', mux_id),
\* serial.write, flush. A device that echoes the verb switches to the new rate.
SetBaudrateWrite ==
    /\ client = "interface" /\ pc = "idle" /\ port_open
    /\ exchanges < MaxExchanges
    /\ \E b \in BaudInputs :
         /\ IsValidBaudrate(b)
         /\ last_sent' = build_command(<<"b", "r", Digit(BaudCode(b))>>,
                                       StandardId, NoChannel, FALSE)
         /\ \E w \in BrReplies(BaudCode(b)) :
              /\ wire' = w
              /\ device_baud' = IF HasSub(w, <<"b", "r">>) THEN b ELSE device_baud
    /\ exchanges' = exchanges + 1
    /\ pc' = "br_awaiting"
    /\ rx' = <<>>
    /\ outcome' = "none"
    /\ reading' = NoReading
    /\ UNCHANGED <<client, port_open, pending, gd_channel, weights>>
    /\ UNCHANGED <<bus_ok, mux, results, log, port_baud>>
    /\ UNCHANGED <<csVars, codecVars, parseVars, parVars, connVars>>

\* set_baudrate from the return of read_until: decode, strip, the empty check of
\* _send_command, then "return 'br' in response.lower()". Neither the port nor
\* self.baudrate is touched.
SetBaudrateRead ==
    /\ client = "interface" /\ pc = "br_awaiting"
    /\ \E n \in ReadLens(pending, wire) :
         LET stream == pending \o wire
             got    == SubSeq(stream, 1, n)
             resp   == Strip(got)
         IN  /\ rx' = got
             /\ pending' = SubSeq(stream, n + 1, Len(stream))
             /\ outcome' = IF resp = <<>> THEN "TimeoutError"
                           ELSE IF HasSub(Lower(resp), <<"b", "r">>) THEN "True"
                           ELSE "False"
    /\ wire' = <<>>
    /\ pc' = "idle"
    /\ reading' = NoReading
    /\ UNCHANGED <<client, port_open, last_sent, exchanges, gd_channel, weights>>
    /\ UNCHANGED <<csVars, codecVars, parseVars, busVars, parVars, connVars>>

InitBaud == CsIdle /\ CodecIdle /\ ParseIdle /\ ExIdle /\ BusIdle /\ ParIdle

NextBaud ==
    \/ InterfaceInit
    \/ Connect
    \/ Disconnect
    \/ GetWeightNotConnected
    \/ GetWeightWrite
    \/ GetWeightRead
    \/ SetBaudrateRaises
    \/ SetBaudrateWrite
    \/ SetBaudrateRead

SpecBaud == InitBaud /\ [][NextBaud]_vars

---------------------------------------------------------------------------
(* Claims about one exchange *)

Chars(s) == {s[i] : i \in 1..Len(s)}

\* C10: an exchange whose read returned without a CR (nothing or a partial reply)
\* ends in the timeout failure: TimeoutError of _send_command, the NO_RESPONSE
\* tuple of read_mux_weights_gd; the bytes are not parsed and nothing else is raised.
C10_NoTerminatorIsTimeout ==
    (/\ pc \in {"idle", "returned"}
     /\ last_sent # <<>>
     /\ outcome \notin {"none", "ConnectionError"}
     /\ CR \notin Chars(rx))
    => outcome \in {"TimeoutError", "NO_RESPONSE"}

\* a reply that ends with the terminator
Terminated(s) == s # <<>> /\ s[Len(s)] = CR

\* the body of a terminated reply: what lies between the 3-character prefix and
\* the checksum
ReplyBody(s) == Slice(s, 3, Len(s) - 3)

\* the verb of a request frame
VerbOf(frame) == Slice(frame, 3, 5)

\* the shortest valid body of the reply to a verb: a 10-character block for gw,
\* an 11-character block for gd
MinBodyLen(verb) == IF verb = <<"g", "d">> THEN 11 ELSE 10

TimeoutOutcomes == {"TimeoutError", "TIMEOUT", "NO_RESPONSE"}

RaisedOutcomes == {"IndexError", "ValueError"}

ParsedOutcomes == {"WeightReading", "parsed"}

\* C11: an exchange whose read returned a terminated reply with a body shorter
\* than the verb's minimum ends in a failure of its own: not the timeout failure,
\* not an exception raised to the caller, not a parsed reading.
C11_ShortReplyIsShortResponse ==
    (/\ pc \in {"idle", "returned"}
     /\ last_sent # <<>>
     /\ outcome \notin {"none", "ConnectionError"}
     /\ Terminated(rx)
     /\ Len(ReplyBody(rx)) < MinBodyLen(VerbOf(last_sent)))
    => outcome \notin (TimeoutOutcomes \cup RaisedOutcomes \cup ParsedOutcomes)

---------------------------------------------------------------------------
(* A polling cycle over several devices on one shared port *)

\* devices one cycle polls (len(mux_configs))
NumMux == 2

\* channels a cycle polls on each device (num_channels)
CycleChannels == 2

SecondId ==
    <<"0", "1", "2", "0", "2", "2", "1", "1", "2", "4", "0", "6", "4", "3", "4", "4">>

\* the caller-supplied device order
MuxPlan == SubSeq(<<ExtendedId, SecondId, StandardId, <<"0", "0", "1">>>>, 1, NumMux)

\* mutant of Device: the devices are taken in reverse order
Device_reversed(i) == MuxPlan[(Len(MuxPlan) + 1) - i]

\* the device the loop over the plan is at: mux_configs[idx], mux1_id / mux2_id
Device(i) == MuxPlan[i]

\* use_extended = len(mux_id) == 16; head = '#' if use_extended else '@'
HeadOf(mux_id) == IF Len(mux_id) = 16 THEN <<"#">> ELSE <<"@">>

\* one observation of the transport: a write of a frame to a device, a read and
\* the bytes it returned, a settle delay (time.sleep), a reset of the input
\* buffer, or a call that raised
Event(e, frame) == [ev |-> e, dev |-> mux, frame |-> frame]

\* mutant of ErrorTuple: the tuple carries the first channel
ErrorTuple_first(c) ==
    [exc |-> "none", channel |-> 0, weight |-> 0, status |-> "ERROR", valid |-> FALSE]

ErrorTuple(c) ==
    [exc |-> "none", channel |-> c, weight |-> 0, status |-> "ERROR", valid |-> FALSE]

NoResponseTuple(c) ==
    [exc |-> "none", channel |-> c, weight |-> 0, status |-> "NO_RESPONSE", valid |-> FALSE]

\* the serial adapter stops working (unplugged): from now on every call on the
\* port raises SerialException
BusFails ==
    /\ client \in {"single_port", "simple"}
    /\ port_open /\ bus_ok
    /\ bus_ok' = FALSE
    /\ UNCHANGED <<mux, results, log, port_baud, device_baud>>
    /\ UNCHANGED <<csVars, codecVars, parseVars, exVars, parVars, connVars>>

\* read_multiple_muxes_single_port: serial.Serial(), ser.open(); a failure of
\* open() is caught by the outer except, which returns []
SpOpen ==
    /\ client = "none"
    /\ client' = "single_port"
    /\ \E opened \in BOOLEAN :
         /\ port_open' = opened
         /\ pc' = IF opened THEN "mux_start" ELSE "returned"
         /\ mux' = IF opened THEN 1 ELSE 0
         /\ outcome' = IF opened THEN "none" ELSE "SerialException"
    /\ pending' = <<>>
    /\ results' = <<>>
    /\ UNCHANGED <<last_sent, wire, rx, reading, exchanges, gd_channel, weights>>
    /\ UNCHANGED <<bus_ok, log, port_baud, device_baud>>
    /\ UNCHANGED <<csVars, codecVars, parseVars, parVars, connVars>>

\* read_all_weights_gd_single_port up to the channel loop: weights = [],
\* reset_input_buffer, reset_output_buffer; if they raise, the outer except
\* returns (False, [], error)
SpReset ==
    /\ client = "single_port" /\ pc = "mux_start"
    /\ IF bus_ok
       THEN /\ pending' = <<>>
            /\ log' = Append(log, Event("reset", <<>>))
            /\ gd_channel' = 0
            /\ weights' = <<>>
            /\ pc' = "idle"
            /\ UNCHANGED results
       ELSE /\ results' = Append(results, [success |-> FALSE, weights |-> <<>>])
            /\ log' = Append(log, Event("reset_raised", <<>>))
            /\ pc' = "mux_done"
            /\ UNCHANGED <<pending, gd_channel, weights>>
    /\ UNCHANGED <<client, port_open, last_sent, wire, rx, outcome, reading, exchanges>>
    /\ UNCHANGED <<bus_ok, mux, port_baud, device_baud>>
    /\ UNCHANGED <<csVars, codecVars, parseVars, parVars, connVars>>

\* one iteration of the channel loop up to the blocking read: create_lowa_msg,
\* ser.write, ser.flush; if the write raises, "except Exception" appends the ERROR
\* tuple and the loop goes on with the next channel, without the delay
SpWrite ==
    /\ client = "single_port" /\ pc = "idle"
    /\ gd_channel < CycleChannels
    /\ \E frame \in {create_lowa_msg(HeadOf(Device(mux)), Device(mux), <<"g", "d">>,
                                     Str(gd_channel) \o <<"0">>)} :
         /\ last_sent' = frame
         /\ IF bus_ok
            THEN /\ \E w \in GdReplies : wire' = w
                 /\ log' = Append(log, Event("write", frame))
                 /\ pc' = "awaiting"
                 /\ outcome' = "none"
                 /\ UNCHANGED <<gd_channel, weights>>
            ELSE /\ log' = Append(log, Event("write_raised", frame))
                 /\ weights' = Append(weights, ErrorTuple(gd_channel))
                 /\ gd_channel' = gd_channel + 1
                 /\ outcome' = "ERROR"
                 /\ UNCHANGED <<wire, pc>>
    /\ exchanges' = exchanges + 1
    /\ UNCHANGED <<client, port_open, pending, rx, reading>>
    /\ UNCHANGED <<bus_ok, mux, results, port_baud, device_baud>>
    /\ UNCHANGED <<csVars, codecVars, parseVars, parVars, connVars>>

\* the rest of the iteration: read_until, the length check, parse_gd_response or
\* the NO_RESPONSE tuple, the append, the inter-command delay; if the read raises,
\* "except Exception" appends the ERROR tuple, without the delay
SpRead ==
    /\ client = "single_port" /\ pc = "awaiting"
    /\ IF bus_ok
       THEN \E n \in ReadLens(pending, wire) :
              LET stream == pending \o wire
                  got    == SubSeq(stream, 1, n)
                  parse  == got # <<>> /\ Len(got) >= 14
                  tuple  == IF parse THEN parse_gd_response(got, gd_channel)
                            ELSE NoResponseTuple(gd_channel)
              IN  /\ rx' = got
                  /\ pending' = SubSeq(stream, n + 1, Len(stream))
                  /\ outcome' = IF parse THEN "parsed" ELSE "NO_RESPONSE"
                  /\ reading' = tuple
                  /\ weights' = Append(weights, tuple)
                  /\ log' = log \o <<Event("read", got), Event("sleep", <<>>)>>
       ELSE /\ rx' = <<>>
            /\ outcome' = "ERROR"
            /\ reading' = ErrorTuple(gd_channel)
            /\ weights' = Append(weights, ErrorTuple(gd_channel))
            /\ log' = Append(log, Event("read_raised", <<>>))
            /\ UNCHANGED pending
    /\ wire' = <<>>
    /\ gd_channel' = gd_channel + 1
    /\ pc' = "idle"
    /\ UNCHANGED <<client, port_open, last_sent, exchanges>>
    /\ UNCHANGED <<bus_ok, mux, results, port_baud, device_baud>>
    /\ UNCHANGED <<csVars, codecVars, parseVars, parVars, connVars>>

\* "return (True, weights, None)" and the results.append of the caller
SpMuxReturn ==
    /\ client = "single_port" /\ pc = "idle"
    /\ gd_channel = CycleChannels
    /\ results' = Append(results, [success |-> TRUE, weights |-> weights])
    /\ pc' = "mux_done"
    /\ UNCHANGED <<client, port_open, last_sent, wire, pending, rx, outcome, reading,
                   exchanges, gd_channel, weights>>
    /\ UNCHANGED <<bus_ok, mux, log, port_baud, device_baud>>
    /\ UNCHANGED <<csVars, codecVars, parseVars, parVars, connVars>>

\* the end of the device loop body: the inter-MUX delay unless this was the last
\* device; after the last one ser.close() and "return results"
SpNextMux ==
    /\ client = "single_port" /\ pc = "mux_done"
    /\ IF mux < NumMux
       THEN /\ log' = Append(log, Event("sleep", <<>>))
            /\ mux' = mux + 1
            /\ pc' = "mux_start"
            /\ UNCHANGED port_open
       ELSE /\ port_open' = FALSE
            /\ pc' = "returned"
            /\ UNCHANGED <<log, mux>>
    /\ UNCHANGED <<client, last_sent, wire, pending, rx, outcome, reading,
                   exchanges, gd_channel, weights>>
    /\ UNCHANGED <<bus_ok, results, port_baud, device_baud>>
    /\ UNCHANGED <<csVars, codecVars, parseVars, parVars, connVars>>

\* what a device may answer to gl in a cycle: two 11-character-spaced blocks in a
\* reply frame, or nothing
GlReplies ==
    {ReplyFrame(<<"#">>, BulkBody([n |-> 2, r |-> 0, pad |-> 1, pos |-> 0,
                                  numeric |-> TRUE, st |-> " "])),
     <<>>}

\* main of read_two_muxes_simple.py reads MUX 1, then MUX 2
TwoMuxes == 2

\* main of read_two_muxes_simple.py: serial.Serial(), ser.open(); a failure of
\* open() is reported by "except serial.SerialException"
SmOpen ==
    /\ client = "none"
    /\ client' = "simple"
    /\ \E opened \in BOOLEAN :
         /\ port_open' = opened
         /\ pc' = IF opened THEN "idle" ELSE "returned"
         /\ mux' = IF opened THEN 1 ELSE 0
         /\ outcome' = IF opened THEN "none" ELSE "SerialException"
    /\ pending' = <<>>
    /\ results' = <<>>
    /\ UNCHANGED <<last_sent, wire, rx, reading, exchanges, gd_channel, weights>>
    /\ UNCHANGED <<bus_ok, log, port_baud, device_baud>>
    /\ UNCHANGED <<csVars, codecVars, parseVars, parVars, connVars>>

\* read_mux_weights up to the blocking read: create_lowa_msg(head, mux_id, "gl", ""),
\* ser.write; if the write raises, the "except Exception" of main sets the
\* device's weights to [] and main goes on with the next MUX
SmWrite ==
    /\ client = "simple" /\ pc = "idle"
    /\ mux <= TwoMuxes
    /\ \E frame \in {create_lowa_msg(HeadOf(Device(mux)), Device(mux), <<"g", "l">>, <<>>)} :
         /\ last_sent' = frame
         /\ IF bus_ok
            THEN /\ \E w \in GlReplies : wire' = w
                 /\ log' = Append(log, Event("write", frame))
                 /\ pc' = "awaiting"
                 /\ outcome' = "none"
                 /\ UNCHANGED <<mux, results>>
            ELSE /\ log' = Append(log, Event("write_raised", frame))
                 /\ results' = Append(results, [success |-> FALSE, weights |-> <<>>])
                 /\ mux' = mux + 1
                 /\ outcome' = "ERROR"
                 /\ UNCHANGED <<wire, pc>>
    /\ exchanges' = exchanges + 1
    /\ UNCHANGED <<client, port_open, pending, rx, reading, gd_channel, weights>>
    /\ UNCHANGED <<bus_ok, port_baud, device_baud>>
    /\ UNCHANGED <<csVars, codecVars, parseVars, parVars, connVars>>

\* the rest of read_mux_weights and the statements of main after it: read_until,
\* the slicing and the window loop, the device's weights; if the read raises,
\* the "except Exception" of main sets them to []
SmRead ==
    /\ client = "simple" /\ pc = "awaiting"
    /\ IF bus_ok
       THEN \E n \in ReadLens(pending, wire) :
              LET stream == pending \o wire
                  got    == SubSeq(stream, 1, n)
                  r      == read_mux_weights_parse(got)
              IN  /\ rx' = got
                  /\ pending' = SubSeq(stream, n + 1, Len(stream))
                  /\ outcome' = "parsed"
                  /\ weights' = r.weights
                  /\ results' = Append(results, [success |-> TRUE, weights |-> r.weights])
                  /\ log' = Append(log, Event("read", got))
       ELSE /\ rx' = <<>>
            /\ outcome' = "ERROR"
            /\ weights' = <<>>
            /\ results' = Append(results, [success |-> FALSE, weights |-> <<>>])
            /\ log' = Append(log, Event("read_raised", <<>>))
            /\ UNCHANGED pending
    /\ wire' = <<>>
    /\ mux' = mux + 1
    /\ pc' = "idle"
    /\ UNCHANGED <<client, port_open, last_sent, reading, exchanges, gd_channel>>
    /\ UNCHANGED <<bus_ok, port_baud, device_baud>>
    /\ UNCHANGED <<csVars, codecVars, parseVars, parVars, connVars>>

\* main after MUX 2: ser.close()
SmClose ==
    /\ client = "simple" /\ pc = "idle"
    /\ mux > TwoMuxes
    /\ port_open' = FALSE
    /\ pc' = "returned"
    /\ UNCHANGED <<client, last_sent, wire, pending, rx, outcome, reading,
                   exchanges, gd_channel, weights>>
    /\ UNCHANGED busVars
    /\ UNCHANGED <<csVars, codecVars, parseVars, parVars, connVars>>

InitCycle == CsIdle /\ CodecIdle /\ ParseIdle /\ ExIdle /\ BusIdle /\ ParIdle

NextCycle ==
    \/ BusFails
    \/ SpOpen
    \/ SpReset
    \/ SpWrite
    \/ SpRead
    \/ SpMuxReturn
    \/ SpNextMux
    \/ SmOpen
    \/ SmWrite
    \/ SmRead
    \/ SmClose

SpecCycle == InitCycle /\ [][NextCycle]_vars

---------------------------------------------------------------------------
(* Two worker threads, each reading one MUX on the port it was given *)

\* channels read_all_weights_gd loops over in a worker of get_weights_gd.py and
\* get_weights_gd_fixed.py
ParChannels == 1

\* mutant of ResultIndex: both workers store into the first slot
ResultIndex_same(t) == 1

\* the slot of the shared results list a worker stores into: index 0 for
\* thread1, 1 for thread2
ResultIndex(t) == t

\* what the device of worker t may answer: its weight t.130 in a reply frame
\* (an 11-character-spaced gl block, an 11-character gd block), for gd also a
\* terminated frame without a body, or nothing
ParReplies(prog, t) ==
    IF prog = "multiport"
    THEN {ReplyFrame(HeadOf(MuxPlan[t]),
                     <<" ", "0", "0", "0", Digit(t), ".", "1", "3", "0", " ", " ">>),
          <<>>}
    ELSE {ReplyFrame(HeadOf(MuxPlan[t]),
                     <<" ", "0", "0", "0", "0", Digit(t), ".", "1", "3", "0", " ">>),
          ReplyFrame(HeadOf(MuxPlan[t]), <<>>),
          <<>>}

Returned(ok, w, err) == [success |-> ok, weights |-> w, error |-> err]

\* main of read_two_muxes_multiport.py, get_weights_gd.py and
\* get_weights_gd_fixed.py up to thread2.start(): the two ports are what the user
\* enters; only the multiport script compares them, and it goes on if the user
\* answers 'y'
ParMain ==
    /\ main_pc = "config" /\ par_prog = "none"
    /\ \E prog \in {"multiport", "gd", "gd_fixed"}, p1, p2 \in PortNames, proceed \in BOOLEAN :
         /\ par_prog' = prog
         /\ ports' = [t \in Threads |-> IF t = 1 THEN p1 ELSE p2]
         /\ IF prog = "multiport" /\ p1 = p2 /\ ~proceed
            THEN main_pc' = "returned" /\ UNCHANGED tpc
            ELSE main_pc' = "started" /\ tpc' = [t \in Threads |-> "start"]
    /\ UNCHANGED <<topen, tch, tweights, tres, par_results, pbuf>>
    /\ UNCHANGED <<csVars, codecVars, parseVars, exVars, busVars, connVars>>

\* read_mux_weights (multiport) / read_single_weight_gd / read_all_weights_gd
\* (fixed): serial.Serial(), ser.open(), in the fixed script also the reset of the
\* buffers; if open() raises, the except clause returns the failure
TOpen(t) ==
    /\ tpc[t] = "start"
    /\ \E opened \in BOOLEAN :
         IF opened
         THEN /\ topen' = [topen EXCEPT ![t] = TRUE]
              /\ tpc' = [tpc EXCEPT ![t] = "opened"]
              /\ pbuf' = IF par_prog = "gd_fixed"
                         THEN [pbuf EXCEPT ![ports[t]] = <<>>] ELSE pbuf
              /\ UNCHANGED <<tch, tweights, tres>>
         ELSE /\ UNCHANGED <<topen, pbuf>>
              /\ IF par_prog \in {"multiport", "gd_fixed"}
                 THEN /\ tres' = [tres EXCEPT ![t] = Returned(FALSE, <<>>, "Serial error")]
                      /\ tpc' = [tpc EXCEPT ![t] = "store"]
                      /\ UNCHANGED <<tch, tweights>>
                 ELSE /\ tweights' = [tweights EXCEPT ![t] = Append(@, ErrorTuple(tch[t]))]
                      /\ tch' = [tch EXCEPT ![t] = @ + 1]
                      /\ tpc' = [tpc EXCEPT ![t] = "next"]
                      /\ UNCHANGED tres
    /\ UNCHANGED <<par_prog, main_pc, ports, par_results>>
    /\ UNCHANGED <<csVars, codecVars, parseVars, exVars, busVars, connVars>>

\* create_lowa_msg and ser.write; the device's reply arrives in the input buffer
\* of the port; if the write raises, the except clause returns the failure (in
\* the fixed script the channel's ERROR tuple) and the port stays open
TWrite(t) ==
    /\ tpc[t] = "opened"
    /\ \E ok \in BOOLEAN :
         IF ok
         THEN /\ \E w \in ParReplies(par_prog, t) :
                   pbuf' = [pbuf EXCEPT ![ports[t]] = @ \o w]
              /\ tpc' = [tpc EXCEPT ![t] = "awaiting"]
              /\ UNCHANGED <<tch, tweights, tres>>
         ELSE /\ UNCHANGED pbuf
              /\ IF par_prog = "multiport"
                 THEN /\ tres' = [tres EXCEPT ![t] = Returned(FALSE, <<>>, "Serial error")]
                      /\ tpc' = [tpc EXCEPT ![t] = "store"]
                      /\ UNCHANGED <<tch, tweights>>
                 ELSE /\ tweights' = [tweights EXCEPT ![t] = Append(@, ErrorTuple(tch[t]))]
                      /\ tch' = [tch EXCEPT ![t] = @ + 1]
                      /\ tpc' = [tpc EXCEPT ![t] = "next"]
                      /\ UNCHANGED tres
    /\ UNCHANGED <<par_prog, main_pc, ports, topen, par_results>>
    /\ UNCHANGED <<csVars, codecVars, parseVars, exVars, busVars, connVars>>

\* read_until on the worker's port and the rest of the read routine: the length
\* check with its close, the parse and the close after it; in the gd script an
\* exception of the parse returns the failure with the port open, and
\* read_all_weights_gd appends the ERROR tuple for every failure; the fixed
\* script parses replies of 14 characters or more and keeps the port open
TRead(t) ==
    /\ tpc[t] = "awaiting"
    /\ \E n \in ReadLens(pbuf[ports[t]], <<>>) :
         LET buf  == pbuf[ports[t]]
             got  == SubSeq(buf, 1, n)
             none == got = <<>> \/ Len(got) < 5
             gl   == multiport_read_mux_weights_parse(got)
             gd   == parse_gd_weight_response(got, tch[t])
             fx   == IF Len(got) >= 14 THEN parse_gd_response(got, tch[t])
                     ELSE NoResponseTuple(tch[t])
         IN  /\ pbuf' = [pbuf EXCEPT ![ports[t]] = SubSeq(buf, n + 1, Len(buf))]
             /\ IF par_prog = "multiport"
                THEN /\ tres' = [tres EXCEPT ![t] =
                                   IF none
                                   THEN Returned(FALSE, <<>>, "No response or timeout")
                                   ELSE Returned(TRUE, gl.weights, "None")]
                     /\ topen' = [topen EXCEPT ![t] = FALSE]
                     /\ tpc' = [tpc EXCEPT ![t] = "store"]
                     /\ UNCHANGED <<tch, tweights>>
                ELSE /\ tweights' = [tweights EXCEPT ![t] =
                                       Append(@, IF par_prog = "gd_fixed" THEN fx
                                                 ELSE IF none \/ gd.exc # "none"
                                                 THEN ErrorTuple(tch[t]) ELSE gd)]
                     /\ topen' = [topen EXCEPT ![t] =
                                    IF par_prog = "gd_fixed" THEN TRUE
                                    ELSE ~none /\ gd.exc # "none"]
                     /\ tch' = [tch EXCEPT ![t] = @ + 1]
                     /\ tpc' = [tpc EXCEPT ![t] = "next"]
                     /\ UNCHANGED tres
    /\ UNCHANGED <<par_prog, main_pc, ports, par_results>>
    /\ UNCHANGED <<csVars, codecVars, parseVars, exVars, busVars, connVars>>

\* read_all_weights_gd: the next channel (a new read_single_weight_gd call, in
\* the fixed script the next write on the open port), or after the last one
\* "all_success = len(weights) == num_channels" and the return, in the fixed
\* script ser.close() and the return
TNext(t) ==
    /\ tpc[t] = "next"
    /\ IF tch[t] < ParChannels
       THEN /\ tpc' = [tpc EXCEPT ![t] =
                         IF par_prog = "gd_fixed" THEN "opened" ELSE "start"]
            /\ UNCHANGED <<tres, topen>>
       ELSE /\ tres' = [tres EXCEPT ![t] =
                          IF par_prog = "gd_fixed" \/ Len(tweights[t]) = ParChannels
                          THEN Returned(TRUE, tweights[t], "None")
                          ELSE Returned(FALSE, tweights[t], "Some channels failed")]
            /\ topen' = [topen EXCEPT ![t] =
                           IF par_prog = "gd_fixed" THEN FALSE ELSE @]
            /\ tpc' = [tpc EXCEPT ![t] = "store"]
    /\ UNCHANGED <<par_prog, main_pc, ports, tch, tweights, par_results, pbuf>>
    /\ UNCHANGED <<csVars, codecVars, parseVars, exVars, busVars, connVars>>

\* read_mux_thread / read_mux_parallel after the read routine returned:
\* results[index] = {...}
TStore(t) ==
    /\ tpc[t] = "store"
    /\ par_results' = [par_results EXCEPT ![ResultIndex(t)] =
                         [port |-> ports[t], mux_id |-> MuxPlan[t],
                          success |-> tres[t].success, weights |-> tres[t].weights,
                          error |-> tres[t].error]]
    /\ tpc' = [tpc EXCEPT ![t] = "done"]
    /\ UNCHANGED <<par_prog, main_pc, ports, topen, tch, tweights, tres, pbuf>>
    /\ UNCHANGED <<csVars, codecVars, parseVars, exVars, busVars, connVars>>

\* thread1.join(); thread2.join()
ParJoin ==
    /\ main_pc = "started"
    /\ \A t \in Threads : tpc[t] = "done"
    /\ main_pc' = "joined"
    /\ UNCHANGED <<par_prog, ports, tpc, topen, tch, tweights, tres, par_results, pbuf>>
    /\ UNCHANGED <<csVars, codecVars, parseVars, exVars, busVars, connVars>>

\* one step of worker t
TStep(t) == TOpen(t) \/ TWrite(t) \/ TRead(t) \/ TNext(t) \/ TStore(t)

InitParallel == CsIdle /\ CodecIdle /\ ParseIdle /\ ExIdle /\ BusIdle /\ ParIdle

NextParallel ==
    \/ ParMain
    \/ \E t \in Threads : TOpen(t)
    \/ \E t \in Threads : TWrite(t)
    \/ \E t \in Threads : TRead(t)
    \/ \E t \in Threads : TNext(t)
    \/ \E t \in Threads : TStore(t)
    \/ ParJoin

SpecParallel == InitParallel /\ [][NextParallel]_vars

---------------------------------------------------------------------------
(* Claims about a polling cycle *)

\* the positions of the log with an event of one of the kinds
At(kinds) == {i \in 1..Len(log) : log[i].ev \in kinds}

\* the address a request frame carries, for a device of the plan
AddressOf(frame, id) == Slice(frame, 5, 5 + Len(id))

\* no call on the port has raised in this cycle
NoneRaised == At({"write_raised", "read_raised", "reset_raised"}) = {}

\* the writes of a finished cycle: each device of the plan in order, k times
WritesInPlanOrder(n, k) ==
    /\ Cardinality(At({"write"})) = n * k
    /\ \A d \in 1..n : Cardinality({i \in At({"write"}) : log[i].dev = d}) = k

C13_SettleBetweenWrites ==
    \A i, j \in At({"write"}) :
        (i < j /\ \A k \in At({"write"}) : ~(i < k /\ k < j))
        => \E k \in i..j : log[k].ev = "sleep"

\* C14: the bytes pending on the port are discarded before each write, so no
\* read is waited for with bytes of an earlier exchange still in the buffer.
C14_NoStaleBytes == pc = "awaiting" => pending = <<>>

\* devices of the running cycle
CycleDevices == IF client = "simple" THEN TwoMuxes ELSE NumMux

\* a complete reply: terminated, with a body of at least one block of the verb
CompleteReply(s) ==
    /\ Terminated(s)
    /\ Len(ReplyBody(s)) >= (IF client = "simple" THEN 10 ELSE 11)

\* every exchange with device d failed: no read returned a complete reply
Failed(d) ==
    \A i \in At({"read"}) : log[i].dev = d => ~CompleteReply(log[i].frame)

\* C15: a cycle that opened the port ends with one result per device of the
\* plan, whatever failed on the way, and the result of a device whose exchanges
\* all failed holds no valid reading.
C15_NoEarlyAbort ==
    (pc = "returned" /\ mux > 0) =>
        /\ Len(results) = CycleDevices
        /\ \A d \in 1..Len(results) :
             Failed(d) => \A k \in 1..Len(results[d].weights) :
                            ~results[d].weights[k].valid

\* C16: after a call on the port raised (the transport is gone), the cycle
\* attempts no further write, read or reset on it.
C16_HaltAfterConnectionFailure ==
    \A i \in At({"write_raised", "read_raised", "reset_raised"}) :
        \A j \in 1..Len(log) : j > i => log[j].ev = "sleep"

---------------------------------------------------------------------------
(* Claims about a parallel run *)

Running(t) == tpc[t] \notin {"idle", "done"}

\* C17: no two concurrently running tasks ever drive the same Transport: the
\* ports the worker threads have open are pairwise distinct
C17_DistinctPorts ==
    \A t, u \in Threads : (t # u /\ topen[t] /\ topen[u]) => ports[t] # ports[u]

\* the weight the device of worker t reports
OwnWeight(t) == t * 1000 + 130

\* every reading of a worker's return value is its own device's weight or a
\* failure tuple of its own exchange
OwnReadings(t, w) ==
    \A k \in 1..Len(w) :
        \/ w[k].valid /\ w[k].status = "OK" /\ w[k].weight = OwnWeight(t)
        \/ ~w[k].valid /\ w[k].weight = 0
              /\ w[k].status \in {"ERROR", "NO_RESPONSE", "PARSE_ERROR"}

\* the positions of a worker from which one of its steps can be taken; no step
\* of a worker has another precondition than its own position
CanStep(t) == tpc[t] \in {"start", "opened", "awaiting", "next", "store"}

\* C18: with the two workers on different ports, whatever the other worker does
\* or fails at, under every interleaving: a worker that has not finished can
\* always take its next step, once both have finished main gets past the joins,
\* and the entry of each worker in the results is absent until that worker
\* stores it and then is that worker's own return value (its port, its MUX,
\* readings of its own device only)
C18_FailureIsolation ==
    ports[1] # ports[2] =>
        \A t \in Threads :
            /\ main_pc = "started" => (Running(t) \/ tpc[t] = "done")
            /\ Running(t) => CanStep(t)
            /\ tres[t] # None => OwnReadings(t, tres[t].weights)
            /\ IF tpc[t] = "done"
               THEN par_results[t] =
                        [port |-> ports[t], mux_id |-> MuxPlan[t],
                         success |-> tres[t].success, weights |-> tres[t].weights,
                         error |-> tres[t].error]
               ELSE par_results[t] = None

\* both workers joined; the first failed to open its port, the second read its
\* device
C18_Witness ==
    /\ main_pc = "joined" /\ ports[1] # ports[2]
    /\ par_results[1].success = FALSE /\ par_results[1].error = "Serial error"
    /\ par_results[2].success = TRUE
    /\ Len(par_results[2].weights) = 1
    /\ par_results[2].weights[1].weight = OwnWeight(2)
    /\ par_results[2].weights[1].valid

\* the read routine called by worker t (read_mux_weights, read_single_weight_gd,
\* read_all_weights_gd of the fixed script) has returned
ReadRoutineReturned(t) ==
    \/ tpc[t] \in {"store", "done"}
    \/ par_prog = "gd" /\ tpc[t] = "next"

\* C19: a Transport that has been opened is closed on every exit path of the
\* operation that opened it: no read routine has returned, normally or with a
\* failure result, while the port it opened is still open
C19_ClosedOnEveryExit ==
    \A t \in Threads : ReadRoutineReturned(t) => ~topen[t]

---------------------------------------------------------------------------
(* Claims about a change of the baud rate *)

\* the last exchange was a SetBaudrate and it succeeded: its reply echoed the verb
BrSucceeded ==
    /\ pc = "idle" /\ outcome = "True"
    /\ VerbOf(last_sent) = <<"b", "r">>

\* the rate the last SetBaudrate frame asked for (the code follows the verb)
RequestedBaud == ValidBaudrates[DigitsValue(<<last_sent[6]>>) + 1]

\* a step that issues an exchange: a command is written to the port
IssuesExchange == pc = "idle" /\ pc' \in {"awaiting", "br_awaiting"}

\* C20: after a SetBaudrate exchange that succeeded, no further exchange is
\* issued on the Transport while the port is still configured at the old rate
C20_NoExchangeAtOldRate ==
    [][(BrSucceeded /\ port_baud # RequestedBaud) => ~IssuesExchange]_vars

---------------------------------------------------------------------------
(* Claims about the frames the operations emit *)

\* C21: every frame emitted with header '@' carries an address of exactly 3
\* characters and every frame emitted with header '#' one of exactly 16, for
\* every device id _build_command accepts
C21_AddressLengthFollowsHeader ==
    built_by = "_build_command" =>
        /\ msg[1] = "@" => Len(uid) = 3
        /\ msg[1] = "#" => Len(uid) = 16

\* the two characters of a gd request frame that follow the command and the
\* address
RequestData(frame, address) == SubSeq(frame, 6 + Len(address), 7 + Len(address))

\* C22: every gd weight read of channel c sends as request data the channel
\* digit c followed by the mode digit '0'
C22_GdDataIsChannelThenMode ==
    built_by \in {"read_scale", "read_mux_weights_gd"} =>
        RequestData(msg, uid) = <<Digit(channel), "0">>

\* C24: for every payload command+address+data of at most 97 characters the
\* length field is exactly two decimal digits, so that the frame is
\* header(1) + length(2) + payload + checksum(2) + CR
C24_TwoDigitLengthUpTo97 ==
    (built_by \in {"create_lowa_msg", "_build_command"} /\ Len(Payload) <= 97) =>
        /\ Len(msg) = ((((1 + 2) + Len(Payload)) + 2) + 1)
        /\ AllDigits(SubSeq(msg, 2, 3))
        /\ SubSeq(msg, 4, 3 + Len(Payload)) = Payload

\* C27: the two frame encoders agree: _build_command('sz', id, channel) is the
\* frame create_lowa_msg(header, id, 'sz', str(channel)), and
\* _build_command('gl', id) is create_lowa_msg(header, id, 'gl', '')
C27_EncodersAgree ==
    built_by = "_build_command" =>
        /\ (command = <<"s", "z">> /\ channel # NoChannel) =>
               msg = create_lowa_msg(head, uid, command, Str(channel))
        /\ (command = <<"g", "l">> /\ channel = NoChannel) =>
               msg = create_lowa_msg(head, uid, command, <<>>)

---------------------------------------------------------------------------
(* Claims about the checksum as an error-detecting code *)

\* character c with bit b (0 = least significant) inverted
FlipBit(c, b) ==
    LET n == Ord(c)
    IN  Chr(IF (n \div (2 ^ b)) % 2 = 1 THEN n - (2 ^ b) ELSE n + (2 ^ b))

\* the routine that produced crc, applied to m
ChecksumBy(by, m) ==
    IF by = "_calculate_checksum" THEN calculate_checksum(m) ELSE XOR_CRC_calculation(m)

\* C25: the checksum is deterministic (the routine applied again to the same
\* input gives the same output) and inverting any single bit of any single
\* character of the input changes the checksum
C25_SingleBitFlipChangesChecksum ==
    crc_by \in {"_calculate_checksum", "XOR_CRC_calculation"} =>
        /\ ChecksumBy(crc_by, message) = crc
        /\ \A i \in 1..Len(message), b \in 0..7 :
               ChecksumBy(crc_by, [message EXCEPT ![i] = FlipBit(message[i], b)]) # crc

\* "@A" has the checksum 01; with the top bit of 'A' inverted it is 81
C25_Witness ==
    /\ crc_by = "_calculate_checksum"
    /\ message = <<"@", "A">>
    /\ crc = <<"0", "1">>
    /\ FlipBit("A", 7) = "xC1"
    /\ calculate_checksum(<<"@", FlipBit("A", 7)>>) = <<"8", "1">>

---------------------------------------------------------------------------
(* Claims about zeroing *)

\* C23: every zeroing routine reports success exactly when the reply contains
\* the verb echo "sz" (in either case), and failure otherwise
C23_ZeroSuccessIsVerbEcho ==
    parsed_by \in {"zero_sensor", "zero_mux_all_channels"} =>
        ((result.exc = "none" /\ result.success) <=> HasSub(Lower(response), <<"s", "z">>))

---------------------------------------------------------------------------
(* Claims about the attribution of replies *)

\* a read returns and its bytes are decoded into a recorded reading
RecordsReading ==
    /\ pc = "awaiting" /\ pc' # "awaiting"
    /\ outcome' \in {"parsed", "WeightReading"}

\* C26: every reading recorded for a request was decoded from the device's
\* reply to that request: the bytes decoded are the first bytes of the reply to
\* the last write, and none of them was left in the buffer by an earlier
\* exchange (a reply that arrived after its exchange timed out).
C26_ReplyAttribution ==
    [][RecordsReading => (pending = <<>> /\ rx' = SubSeq(wire, 1, Len(rx')))]_vars

---------------------------------------------------------------------------
(* Claims about the results of a channel loop *)

\* tuple k (from 1) of ws carries channel index k - 1
IndexedByChannel(ws) == \A k \in 1..Len(ws) : ws[k].channel = k - 1

\* C28: the per-channel gd loop over one device appends one tuple per channel
\* in channel order, whatever happens in an iteration: while it runs it holds one
\* tuple per channel done, and what it returns holds exactly num_channels
\* tuples, the tuple at position k carrying channel index k.
C28_OneTuplePerChannel ==
    client = "single_port" =>
        /\ pc \in {"idle", "awaiting"} =>
             (Len(weights) = gd_channel /\ IndexedByChannel(weights))
        /\ \A d \in 1..Len(results) :
             results[d].success =>
                 /\ Len(results[d].weights) = CycleChannels
                 /\ IndexedByChannel(results[d].weights)

\* a loop returned after a parsed reading and, once the adapter had failed, an
\* ERROR tuple
C28_Witness ==
    /\ client = "single_port" /\ pc = "mux_done"
    /\ Len(results) >= 1 /\ results[Len(results)].success
    /\ \E j, k \in 1..Len(weights) :
         /\ j < k
         /\ weights[j].valid
         /\ weights[k].status = "ERROR"

\* the exchange of at least one channel failed: its tuple is the ERROR tuple
SomeChannelFailed(ws) == \E k \in 1..Len(ws) : ws[k].status = "ERROR"

\* C29: read_all_weights_gd returns success = False with the error "Some
\* channels failed" whenever the exchange of at least one channel failed, and
\* success = True with no error only when every channel's exchange succeeded.
C29_SuccessIffNoChannelFailed ==
    \A t \in Threads :
        (par_prog = "gd" /\ tres[t] # None) =>
            /\ tres[t].success <=> ~SomeChannelFailed(tres[t].weights)
            /\ tres[t].error = IF SomeChannelFailed(tres[t].weights)
                               THEN "Some channels failed" ELSE "None"

---------------------------------------------------------------------------
(* Claims about an interface that is not connected *)

\* an exchange operation is called on the interface
CallsExchange == client = "interface" /\ exchanges' = exchanges + 1

\* C30: on a DigiSensInterface that is not connected (never connected, connect
\* failed, disconnected or context left) every exchange operation raises
\* ConnectionError and writes nothing; and once the interface is left not
\* connected (connect raised, disconnect or __exit__ ran) its port is closed.
C30_NotConnectedRaises ==
    [][/\ (CallsExchange /\ conn # "connected") =>
            /\ outcome' = "ConnectionError"
            /\ pc' = "idle"
            /\ UNCHANGED <<last_sent, wire>>
       /\ (client' = "interface" /\ conn' # "connected") => ~port_open']_vars

====
